---------------------------- MODULE Spec2Model ----------------------------
(***************************************************************************)
(* Model of the spreadsheet semantic search engine: the concept catalog    *)
(* and tagger (src/src/business_concepts.py), the cell indexer, the        *)
(* embedding index, the ranking engine and the result formatter            *)
(* (src/src/semantic_search.py).                                           *)
(*                                                                         *)
(* Python str values are TLA+ strings; Len, SubSeq, Head, Tail and \o act  *)
(* on them character by character.  Scores are Python floats, computed     *)
(* with the roundings of the code.  The Embedding Provider is external: an *)
(* embedding is the text it was computed from, and the cosine of two       *)
(* embeddings is a fixed function of the two texts, one per provider.      *)
(***************************************************************************)
EXTENDS Integers, Sequences, FiniteSets, TLC

(***************************************************************************)
(* Bounds of the model.                                                    *)
(***************************************************************************)
\* number of provider models the similarity function is drawn from
NumProviders == 1
\* largest column index the address round trip is checked for
MaxColumn == 1000
\* largest row index an address is built for
MaxAddrRow == 4
\* largest max_results a caller passes
MaxResultsBound == 2
\* number of negative max_results values a caller passes: -1, -2, ...
NegResultsBound == 1

(***************************************************************************)
(* Python str operations.                                                  *)
(***************************************************************************)
Ch(s, i) == SubSeq(s, i, i)

UpperChars == "ABCDEFGHIJKLMNOPQRSTUVWXYZ"
LowerChars == "abcdefghijklmnopqrstuvwxyz"
DigitChars == "0123456789"

CharsOf(s) == {Ch(s, i) : i \in 1..Len(s)}

IndexIn(s, c) == CHOOSE i \in 1..Len(s) : Ch(s, i) = c

\* the character U+0060, which no string literal can hold
Backtick == SubSeq("`'", 1, 1)

\* the characters a str of this module can hold, U+0001 to U+00FF, in the
\* order of their code points
AllChars ==
  "\t\n\f\r !\"#$%&'()*+,-./0123456789:;<=>?"
  \o "@ABCDEFGHIJKLMNOPQRSTUVWXYZ[\\]^_"
  \o Backtick
  \o "abcdefghijklmnopqrstuvwxyz{|}~"
  \o " ¡¢£¤¥¦§¨©ª«¬­®¯°±²³´µ¶·¸¹º»¼½¾¿"
  \o "ÀÁÂÃÄÅÆÇÈÉÊËÌÍÎÏÐÑÒÓÔÕÖ×ØÙÚÛÜÝÞßàáâãäåæçèéêëìíîïðñòóôõö÷øùúûüýþÿ"

\* ord(c)
CodePointMap == [c \in CharsOf(AllChars) |-> IndexIn(AllChars, c)]
CodePoint(c) == CodePointMap[c]

UpperSet == CharsOf(UpperChars)
LowerSet == CharsOf(LowerChars)

\* the characters above U+007F that str.lower() changes, and what it makes of
\* them
UpperLatin1 == "ÀÁÂÃÄÅÆÇÈÉÊËÌÍÎÏÐÑÒÓÔÕÖØÙÚÛÜÝÞ"
LowerLatin1 == "àáâãäåæçèéêëìíîïðñòóôõöøùúûüýþ"

\* the characters c with c.lower() != c, and c.lower()
LowerFrom == UpperChars \o UpperLatin1
LowerTo == LowerChars \o LowerLatin1
LowerMap == [c \in CharsOf(LowerFrom) |-> Ch(LowerTo, IndexIn(LowerFrom, c))]

\* str.lower() of one character
LowerCh(c) == IF c \in DOMAIN LowerMap THEN LowerMap[c] ELSE c

\* c.title() of the characters it changes; the title case of U+00DF is the two
\* characters "Ss", and that of U+00B5 and U+00FF (U+039C and U+0178) is no
\* character a str of this module can hold
TitleMap ==
  [c \in CharsOf(LowerTo) \cup {"ß"} |->
     IF c = "ß" THEN "Ss" ELSE Ch(LowerFrom, IndexIn(LowerTo, c))]

\* str.title() of one character
TitleCh(c) ==
  IF c \in {"µ", "ÿ"} THEN CHOOSE t \in {} : TRUE
  ELSE IF c \in DOMAIN TitleMap THEN TitleMap[c] ELSE c

\* the cased characters: c.islower() or c.isupper()
CasedSet == UpperSet \cup LowerSet \cup CharsOf("ªµºÀÁÂÃÄÅÆÇÈÉÊËÌÍÎÏÐÑÒÓÔÕÖØÙÚÛÜÝÞßàáâãäåæçèéêëìíîïðñòóôõöøùúûüýþÿ")

\* the characters the class \w of a str pattern matches
WordChSet ==
  UpperSet \cup LowerSet \cup CharsOf(DigitChars) \cup {"_"}
    \cup CharsOf("ª²³µ¹º¼½¾ÀÁÂÃÄÅÆÇÈÉÊËÌÍÎÏÐÑÒÓÔÕÖØÙÚÛÜÝÞßàáâãäåæçèéêëìíîïðñòóôõöøùúûüýþÿ")

\* the characters c with c.isspace(), which str.strip, str.split and the class \s
\* of re treat as white space: space, \t, \n, \r, \f, the controls 0x0B and
\* 0x1C to 0x1F, and of the characters above 0x7F the two a string of this
\* module can hold, 0x85 and 0xA0 (the others are U+1680, U+2000 to U+200A,
\* U+2028, U+2029, U+202F, U+205F and U+3000)
SpaceSet ==
  {" ", "\t", "\n", "\r", "\f", "", "", "", "", "", "", " "}

RECURSIVE Lower(_)
\* str.lower(), character by character (the two halves of the text in turn)
Lower(s) ==
  IF s = "" THEN ""
  ELSE IF Len(s) = 1 THEN LowerCh(s)
  ELSE LET half == Len(s) \div 2
       IN Lower(SubSeq(s, 1, half)) \o Lower(SubSeq(s, half + 1, Len(s)))

\* str.isspace() of one character
IsSpace(c) == c \in SpaceSet

\* the regular expression class \w
IsWordCh(c) == c \in WordChSet

\* str.lstrip(): the text from its first character that is not white space
LStrip(s) ==
  LET k == CHOOSE i \in 1..(Len(s) + 1) :
             /\ i = Len(s) + 1 \/ ~IsSpace(Ch(s, i))
             /\ \A j \in 1..(i - 1) : IsSpace(Ch(s, j))
  IN SubSeq(s, k, Len(s))

\* str.rstrip(): the text up to its last character that is not white space
RStrip(s) ==
  LET k == CHOOSE i \in 0..Len(s) :
             /\ i = 0 \/ ~IsSpace(Ch(s, i))
             /\ \A j \in (i + 1)..Len(s) : IsSpace(Ch(s, j))
  IN SubSeq(s, 1, k)

\* str.strip()
Strip(s) == RStrip(LStrip(s))

RECURSIVE SplitAcc(_, _)
\* the words of s after the words acc: white space is skipped, and a word runs
\* up to the next white space or the end of the text
SplitAcc(s, acc) ==
  LET rest == LStrip(s)
      k == CHOOSE i \in 1..(Len(rest) + 1) :
             /\ i = Len(rest) + 1 \/ IsSpace(Ch(rest, i))
             /\ \A j \in 1..(i - 1) : ~IsSpace(Ch(rest, j))
  IN IF rest = "" THEN acc
     ELSE SplitAcc(SubSeq(rest, k, Len(rest)), Append(acc, SubSeq(rest, 1, k - 1)))

\* str.split() with no argument
Split(s) == SplitAcc(s, <<>>)

\* sub in text
Contains(text, sub) ==
  \E i \in 1..(Len(text) - Len(sub) + 1) : SubSeq(text, i, i + Len(sub) - 1) = sub

\* text.startswith(pre)
StartsWith(text, pre) == Len(text) >= Len(pre) /\ SubSeq(text, 1, Len(pre)) = pre

RECURSIVE Join(_, _)
\* sep.join(parts)
Join(parts, sep) ==
  IF parts = <<>> THEN ""
  ELSE IF Len(parts) = 1 THEN parts[1]
  ELSE parts[1] \o sep \o Join(Tail(parts), sep)

RECURSIVE NatToStr(_)
NatToStr(n) == IF n < 10 THEN Ch(DigitChars, n + 1) ELSE NatToStr(n \div 10) \o Ch(DigitChars, (n % 10) + 1)

\* str(n) of a Python int
IntToStr(n) == IF n < 0 THEN "-" \o NatToStr(0 - n) ELSE NatToStr(n)

\* the elements of a sequence
Range(seq) == {seq[i] : i \in 1..Len(seq)}

\* any(t in text for t in terms)
AnyIn(terms, text) == \E t \in terms : Contains(text, t)

\* re.search(r'\bword\b', text) for a word made of \w characters
HasWholeWord(text, word) ==
  \E i \in 1..(Len(text) - Len(word) + 1) :
    /\ SubSeq(text, i, i + Len(word) - 1) = word
    /\ (i = 1 \/ ~IsWordCh(Ch(text, i - 1)))
    /\ (i + Len(word) > Len(text) \/ ~IsWordCh(Ch(text, i + Len(word))))


(***************************************************************************)
(* Python float arithmetic.  A float is an IEEE 754 binary64 number; an    *)
(* operation returns the exact result rounded to 53 significant bits, to   *)
(* nearest, ties to even.  The 53-bit significand does not fit an integer  *)
(* of the model checker, so a natural number is kept as its digits in base *)
(* 2^15, least significant first and without leading zero digits.  The     *)
(* numbers search computes lie far from the exponent limits: subnormal     *)
(* numbers, infinities and NaN are not represented.                        *)
(***************************************************************************)
LimbBits == 15
LimbBase == 2^LimbBits

RECURSIVE BTrim(_)
\* without the zero digits at the most significant end
BTrim(a) == IF a # <<>> /\ a[Len(a)] = 0 THEN BTrim(SubSeq(a, 1, Len(a) - 1)) ELSE a

RECURSIVE BFromNat(_)
\* the digits of a natural number
BFromNat(n) == IF n = 0 THEN <<>> ELSE <<n % LimbBase>> \o BFromNat(n \div LimbBase)

RECURSIVE BToNat(_)
\* the natural number of a digit sequence
BToNat(a) == IF a = <<>> THEN 0 ELSE a[1] + LimbBase * BToNat(Tail(a))

RECURSIVE BAddC(_, _, _)
BAddC(a, b, carry) ==
  IF a = <<>> /\ b = <<>> THEN (IF carry = 0 THEN <<>> ELSE <<carry>>)
  ELSE LET x == IF a = <<>> THEN 0 ELSE a[1]
           y == IF b = <<>> THEN 0 ELSE b[1]
           s == x + y + carry
       IN <<s % LimbBase>>
          \o BAddC(IF a = <<>> THEN <<>> ELSE Tail(a), IF b = <<>> THEN <<>> ELSE Tail(b),
                   s \div LimbBase)

\* a + b
BAdd(a, b) == BAddC(a, b, 0)

RECURSIVE BSubB(_, _, _)
BSubB(a, b, borrow) ==
  IF a = <<>> THEN <<>>
  ELSE LET y == IF b = <<>> THEN 0 ELSE b[1]
           d == a[1] - y - borrow
       IN <<IF d < 0 THEN d + LimbBase ELSE d>>
          \o BSubB(Tail(a), IF b = <<>> THEN <<>> ELSE Tail(b), IF d < 0 THEN 1 ELSE 0)

\* a - b, for a >= b
BSub(a, b) == BTrim(BSubB(a, b, 0))

RECURSIVE BCmpFrom(_, _, _)
BCmpFrom(a, b, i) ==
  IF i = 0 THEN 0
  ELSE IF a[i] # b[i] THEN (IF a[i] < b[i] THEN 0 - 1 ELSE 1)
  ELSE BCmpFrom(a, b, i - 1)

\* -1, 0 or 1 as a < b, a = b or a > b
BCmp(a, b) ==
  IF Len(a) # Len(b) THEN (IF Len(a) < Len(b) THEN 0 - 1 ELSE 1)
  ELSE BCmpFrom(a, b, Len(a))

RECURSIVE BMulSmallC(_, _, _)
BMulSmallC(a, k, carry) ==
  IF a = <<>> THEN (IF carry = 0 THEN <<>> ELSE <<carry>>)
  ELSE LET p == a[1] * k + carry
       IN <<p % LimbBase>> \o BMulSmallC(Tail(a), k, p \div LimbBase)

\* a * k, for a digit k
BMulSmall(a, k) == BTrim(BMulSmallC(a, k, 0))

RECURSIVE BMulAcc(_, _)
BMulAcc(a, b) ==
  IF b = <<>> THEN <<>>
  ELSE LET rest == BMulAcc(a, Tail(b))
       IN BAdd(BMulSmall(a, b[1]), IF rest = <<>> THEN <<>> ELSE <<0>> \o rest)

\* a * b
BMul(a, b) == BTrim(BMulAcc(a, b))

RECURSIVE BDivModSmall(_, _)
\* <<a \div d, a % d>>, for a digit d > 0; the quotient may carry leading zeros
BDivModSmall(a, d) ==
  IF a = <<>> THEN << <<>>, 0 >>
  ELSE LET hi == BDivModSmall(Tail(a), d)
           cur == hi[2] * LimbBase + a[1]
       IN << <<cur \div d>> \o hi[1], cur % d >>

\* a * 2^n
BShl(a, n) ==
  IF a = <<>> THEN <<>>
  ELSE [i \in 1..(n \div LimbBits) |-> 0] \o BMulSmall(a, 2^(n % LimbBits))

\* a \div 2^n
BShr(a, n) ==
  IF Len(a) <= n \div LimbBits THEN <<>>
  ELSE BTrim(BDivModSmall(SubSeq(a, (n \div LimbBits) + 1, Len(a)), 2^(n % LimbBits))[1])

\* bit i of a, bit 0 being the least significant
BBit(a, i) ==
  IF Len(a) <= i \div LimbBits THEN 0
  ELSE (a[(i \div LimbBits) + 1] \div 2^(i % LimbBits)) % 2

\* the bits below bit n of a are all zero
BLowZero(a, n) ==
  /\ \A i \in 1..(n \div LimbBits) : i <= Len(a) => a[i] = 0
  /\ Len(a) > n \div LimbBits => a[(n \div LimbBits) + 1] % 2^(n % LimbBits) = 0

RECURSIVE NatBitLen(_)
NatBitLen(n) == IF n = 0 THEN 0 ELSE 1 + NatBitLen(n \div 2)

\* the number of bits of a
BBitLen(a) == IF a = <<>> THEN 0 ELSE LimbBits * (Len(a) - 1) + NatBitLen(a[Len(a)])

\* the significand has 53 bits
MantBits == 53

\* the float 0.0
FZero == [neg |-> FALSE, m |-> <<>>, e |-> 0]

\* the float nearest to (M + t) * 2^e, negated if neg, where 0 <= t < 1 and
\* inexact tells whether t > 0; ties go to the even significand.  A float is
\* m * 2^e with m of exactly 53 bits.
FRound(neg, M, e, inexact) ==
  IF M = <<>> THEN FZero
  ELSE LET L == BBitLen(M) IN
    IF L <= MantBits
    THEN [neg |-> neg, m |-> BShl(M, MantBits - L), e |-> e - (MantBits - L)]
    ELSE LET s == L - MantBits
             q == BShr(M, s)
             half == BBit(M, s - 1) = 1
             rest == ~BLowZero(M, s - 1) \/ inexact
             up == half /\ (rest \/ BBit(q, 0) = 1)
             q2 == IF up THEN BAdd(q, <<1>>) ELSE q
         IN IF BBitLen(q2) > MantBits
            THEN [neg |-> neg, m |-> BShr(q2, 1), e |-> e + s + 1]
            ELSE [neg |-> neg, m |-> q2, e |-> e + s]

\* bits a quotient is computed to before it is rounded
QuotientBits == 75

\* the float of num / den for integers, den a positive digit: the value of
\* the true division of two ints, and of a decimal literal such as 0.3 (3 / 10)
Float(num, den) ==
  LET a == IF num < 0 THEN 0 - num ELSE num
      qr == BDivModSmall(BShl(BFromNat(a), QuotientBits), den)
  IN FRound(num < 0, BTrim(qr[1]), 0 - QuotientBits, qr[2] # 0)

\* a * b
FMul(a, b) ==
  IF a.m = <<>> \/ b.m = <<>> THEN FZero
  ELSE FRound(a.neg # b.neg, BMul(a.m, b.m), a.e + b.e, FALSE)

\* a + b
FAdd(a, b) ==
  IF a.m = <<>> THEN b
  ELSE IF b.m = <<>> THEN a
  ELSE LET e == IF a.e <= b.e THEN a.e ELSE b.e
           x == BShl(a.m, a.e - e)
           y == BShl(b.m, b.e - e)
           c == BCmp(x, y)
       IN IF a.neg = b.neg THEN FRound(a.neg, BAdd(x, y), e, FALSE)
          ELSE IF c = 0 THEN FZero
          ELSE IF c > 0 THEN FRound(a.neg, BSub(x, y), e, FALSE)
          ELSE FRound(b.neg, BSub(y, x), e, FALSE)

\* -1, 0 or 1 as |a| < |b|, |a| = |b| or |a| > |b|
FCmpAbs(a, b) ==
  IF a.m = <<>> \/ b.m = <<>>
  THEN (IF a.m = b.m THEN 0 ELSE IF a.m = <<>> THEN 0 - 1 ELSE 1)
  ELSE IF a.e # b.e THEN (IF a.e < b.e THEN 0 - 1 ELSE 1)
  ELSE BCmp(a.m, b.m)

\* -1, 0 or 1 as a < b, a == b or a > b
FCmp(a, b) ==
  IF a.neg # b.neg THEN (IF a.neg THEN 0 - 1 ELSE 1)
  ELSE IF a.neg THEN 0 - FCmpAbs(a, b) ELSE FCmpAbs(a, b)

FLt(a, b) == FCmp(a, b) < 0
FLe(a, b) == FCmp(a, b) <= 0
FGt(a, b) == FCmp(a, b) > 0
FGe(a, b) == FCmp(a, b) >= 0

\* min(a, b) and max(a, b) of Python: the first argument unless the second is
\* strictly smaller, or strictly larger
FMin(a, b) == IF FLt(b, a) THEN b ELSE a
FMax(a, b) == IF FGt(b, a) THEN b ELSE a

\* the integer nearest to |a| * k, halves upwards, negated for a negative a:
\* a float read in units of 1/k, for a digit k
FScaled(a, k) ==
  IF a.m = <<>> THEN 0
  ELSE LET p == BMulSmall(a.m, k)
           n == IF a.e >= 0 THEN BToNat(BShl(p, a.e))
                ELSE BToNat(BShr(p, 0 - a.e)) + BBit(p, (0 - a.e) - 1)
       IN IF a.neg THEN 0 - n ELSE n
(***************************************************************************)
(* Concept catalog (BusinessConceptMapper._initialize_business_concepts),  *)
(* in dictionary order: category by category, concept by concept.          *)
(***************************************************************************)
Concepts ==
  <<
    [name |-> "gross profit margin",
     synonyms |-> <<"gross margin", "gross profit %", "gross profitability">>,
     keywords |-> <<"gross", "profit", "margin", "revenue", "cogs">>,
     description |-> "Measures profitability after cost of goods sold",
     category |-> "profitability"],
    [name |-> "net profit margin",
     synonyms |-> <<"net margin", "profit margin", "net profitability">>,
     keywords |-> <<"net", "profit", "margin", "bottom line">>,
     description |-> "Overall profitability after all expenses",
     category |-> "profitability"],
    [name |-> "operating margin",
     synonyms |-> <<"operating profit margin", "EBIT margin">>,
     keywords |-> <<"operating", "margin", "ebit">>,
     description |-> "Profitability from core operations",
     category |-> "profitability"],
    [name |-> "EBITDA",
     synonyms |-> <<"earnings before interest tax depreciation amortization">>,
     keywords |-> <<"ebitda", "earnings", "cash flow proxy">>,
     description |-> "Operating performance measure",
     category |-> "profitability"],
    [name |-> "return on investment",
     synonyms |-> <<"ROI", "return on assets", "ROA">>,
     keywords |-> <<"roi", "return", "investment", "efficiency">>,
     description |-> "Efficiency of investment returns",
     category |-> "profitability"],
    [name |-> "total revenue",
     synonyms |-> <<"sales", "income", "turnover", "gross sales">>,
     keywords |-> <<"revenue", "sales", "income", "total">>,
     description |-> "Total income from business operations",
     category |-> "revenue"],
    [name |-> "revenue growth",
     synonyms |-> <<"sales growth", "income growth", "top line growth">>,
     keywords |-> <<"growth", "increase", "yoy", "qoq">>,
     description |-> "Rate of revenue increase over time",
     category |-> "revenue"],
    [name |-> "recurring revenue",
     synonyms |-> <<"subscription revenue", "monthly recurring revenue", "MRR">>,
     keywords |-> <<"recurring", "subscription", "monthly", "mrr">>,
     description |-> "Predictable revenue streams",
     category |-> "revenue"],
    [name |-> "cost of goods sold",
     synonyms |-> <<"COGS", "direct costs", "variable costs">>,
     keywords |-> <<"cogs", "cost", "goods", "sold", "direct">>,
     description |-> "Direct costs of producing goods/services",
     category |-> "costs"],
    [name |-> "operating expenses",
     synonyms |-> <<"OPEX", "operational costs", "overhead">>,
     keywords |-> <<"operating", "expenses", "opex", "overhead">>,
     description |-> "Costs of running business operations",
     category |-> "costs"],
    [name |-> "marketing spend",
     synonyms |-> <<"marketing costs", "advertising expenses", "marketing investment">>,
     keywords |-> <<"marketing", "advertising", "promotion", "spend">>,
     description |-> "Investment in marketing and advertising",
     category |-> "costs"],
    [name |-> "total expenses",
     synonyms |-> <<"total costs", "all expenses", "combined costs">>,
     keywords |-> <<"total", "expenses", "costs", "all">>,
     description |-> "Sum of all business expenses",
     category |-> "costs"],
    [name |-> "asset turnover",
     synonyms |-> <<"asset efficiency", "asset utilization">>,
     keywords |-> <<"asset", "turnover", "efficiency", "utilization">>,
     description |-> "How efficiently assets generate revenue",
     category |-> "efficiency"],
    [name |-> "inventory turnover",
     synonyms |-> <<"inventory efficiency", "stock turnover">>,
     keywords |-> <<"inventory", "turnover", "stock", "efficiency">>,
     description |-> "How quickly inventory is sold",
     category |-> "efficiency"],
    [name |-> "working capital ratio",
     synonyms |-> <<"current ratio", "liquidity ratio">>,
     keywords |-> <<"working", "capital", "ratio", "liquidity">>,
     description |-> "Short-term financial health measure",
     category |-> "efficiency"],
    [name |-> "productivity ratio",
     synonyms |-> <<"productivity measure", "efficiency ratio">>,
     keywords |-> <<"productivity", "efficiency", "output", "input">>,
     description |-> "Output relative to input measure",
     category |-> "efficiency"],
    [name |-> "year over year growth",
     synonyms |-> <<"YoY growth", "annual growth", "yearly growth">>,
     keywords |-> <<"yoy", "year", "annual", "growth">>,
     description |-> "Growth compared to same period previous year",
     category |-> "growth"],
    [name |-> "quarter over quarter growth",
     synonyms |-> <<"QoQ growth", "quarterly growth">>,
     keywords |-> <<"qoq", "quarter", "quarterly", "growth">>,
     description |-> "Growth compared to previous quarter",
     category |-> "growth"],
    [name |-> "compound annual growth rate",
     synonyms |-> <<"CAGR", "compound growth">>,
     keywords |-> <<"cagr", "compound", "annual", "growth">>,
     description |-> "Average annual growth rate over multiple years",
     category |-> "growth"],
    [name |-> "month over month growth",
     synonyms |-> <<"MoM growth", "monthly growth">>,
     keywords |-> <<"mom", "month", "monthly", "growth">>,
     description |-> "Growth compared to previous month",
     category |-> "growth"],
    [name |-> "budget vs actual",
     synonyms |-> <<"budget variance", "actual vs budget", "variance analysis">>,
     keywords |-> <<"budget", "actual", "variance", "vs", "against">>,
     description |-> "Comparison of planned vs actual performance",
     category |-> "financial_analysis"],
    [name |-> "forecast analysis",
     synonyms |-> <<"projection", "prediction", "forecast">>,
     keywords |-> <<"forecast", "projection", "prediction", "future">>,
     description |-> "Future performance predictions",
     category |-> "financial_analysis"],
    [name |-> "trend analysis",
     synonyms |-> <<"time series", "historical analysis">>,
     keywords |-> <<"trend", "time", "series", "historical">>,
     description |-> "Analysis of patterns over time",
     category |-> "financial_analysis"],
    [name |-> "percentage calculation",
     synonyms |-> <<"percent formula", "ratio as percentage">>,
     keywords |-> <<"percentage", "percent", "%", "ratio">>,
     description |-> "Calculations expressed as percentages",
     category |-> "formulas"],
    [name |-> "average calculation",
     synonyms |-> <<"mean", "avg", "average formula">>,
     keywords |-> <<"average", "mean", "avg">>,
     description |-> "Average or mean calculations",
     category |-> "formulas"],
    [name |-> "sum calculation",
     synonyms |-> <<"total", "sum formula", "addition">>,
     keywords |-> <<"sum", "total", "add", "addition">>,
     description |-> "Sum or total calculations",
     category |-> "formulas"],
    [name |-> "conditional calculation",
     synonyms |-> <<"if formula", "conditional logic">>,
     keywords |-> <<"if", "conditional", "logic", "condition">>,
     description |-> "Calculations with conditional logic",
     category |-> "formulas"],
    [name |-> "lookup formula",
     synonyms |-> <<"vlookup", "index match", "lookup">>,
     keywords |-> <<"vlookup", "lookup", "index", "match">>,
     description |-> "Data lookup and retrieval formulas",
     category |-> "formulas"]
  >>

\* heuristic labels the tagger and the indexer attach besides catalog names
HeuristicTags ==
  <<"ratio calculation", "growth metric", "profitability metric",
    "aggregation formula", "revenue calculation", "cost calculation",
    "percentage value", "monetary value">>

\* every tag a cell or a query can carry
AllTags == [i \in 1..Len(Concepts) |-> Concepts[i].name] \o HeuristicTags

TagRank(tag) == CHOOSE i \in 1..Len(AllTags) : AllTags[i] = tag

RECURSIVE Factorial(_)
Factorial(n) == IF n <= 1 THEN 1 ELSE n * Factorial(n - 1)

\* the numbers of the orders of a set of n members
Orders(n) == 0..(Factorial(n) - 1)

RECURSIVE Permuted(_, _)
\* the permutation number `order` of a list: order % n tells which of the n
\* elements comes first, and order \div n orders the others in the same way;
\* the numbers 0..(n! - 1) give the n! permutations
Permuted(order, list) ==
  IF list = <<>> THEN <<>>
  ELSE LET first == (order % Len(list)) + 1
       IN <<list[first]>>
          \o Permuted(order \div Len(list),
                      SubSeq(list, 1, first - 1) \o SubSeq(list, first + 1, Len(list)))

RECURSIVE RankOrdered(_)
\* the tags of a set in the order of AllTags
RankOrdered(S) ==
  IF S = {} THEN <<>>
  ELSE LET m == CHOOSE x \in S : \A y \in S : TagRank(x) <= TagRank(y)
       IN <<m>> \o RankOrdered(S \ {m})

\* list(set(tags)): the members of the set in the order in which the set
\* iterates.  The order depends on the hashes of the strings, which the hash
\* seed of the process fixes, and on how the set was built; any of the orders
\* can come out, and `order` tells which
SetToList(order, S) == Permuted(order, RankOrdered(S))

\* [concept.name] + concept.synonyms + concept.keywords
AllTerms(concept) == <<concept.name>> \o concept.synonyms \o concept.keywords

\* term.lower().split() of every term of every concept, by concept name
TermWords ==
  [name \in {Concepts[i].name : i \in 1..Len(Concepts)} |->
     LET concept == Concepts[CHOOSE i \in 1..Len(Concepts) : Concepts[i].name = name]
     IN [k \in 1..Len(AllTerms(concept)) |-> Split(Lower(AllTerms(concept)[k]))]]

\* BusinessConceptMapper._matches_concept
MatchesConcept(text, concept) ==
  \E k \in 1..Len(TermWords[concept.name]) :
    \A w \in 1..Len(TermWords[concept.name][k]) : Contains(text, TermWords[concept.name][k][w])

\* re.search(r'\b\w+\s*/\s*\w+\b', text)
RatioRegex(text) ==
  \E p \in 1..Len(text) :
    /\ Ch(text, p) = "/"
    /\ \E a \in 1..(p - 1) :
         /\ IsWordCh(Ch(text, a))
         /\ \A k \in (a + 1)..(p - 1) : IsSpace(Ch(text, k))
    /\ \E b \in (p + 1)..Len(text) :
         /\ IsWordCh(Ch(text, b))
         /\ \A k \in (p + 1)..(b - 1) : IsSpace(Ch(text, k))

\* re.search(r'\bprofit\s+margin\b', text)
ProfitMarginRegex(text) ==
  \E i \in 1..(Len(text) - 12) : \E j \in (i + 7)..(Len(text) - 5) :
    /\ SubSeq(text, i, i + 5) = "profit"
    /\ (i = 1 \/ ~IsWordCh(Ch(text, i - 1)))
    /\ \A k \in (i + 6)..(j - 1) : IsSpace(Ch(text, k))
    /\ SubSeq(text, j, j + 5) = "margin"
    /\ (j + 6 > Len(text) \/ ~IsWordCh(Ch(text, j + 6)))

\* BusinessConceptMapper._identify_patterns
IdentifyPatterns(text) ==
  (IF RatioRegex(text) \/ Contains(text, "/") THEN {"ratio calculation"} ELSE {})
  \cup (IF \/ Contains(text, "%")
           \/ HasWholeWord(text, "percent")
           \/ HasWholeWord(text, "ratio")
           \/ HasWholeWord(text, "rate")
        THEN {"percentage calculation"} ELSE {})
  \cup (IF \/ HasWholeWord(text, "yoy") \/ HasWholeWord(text, "qoq") \/ HasWholeWord(text, "mom")
           \/ HasWholeWord(text, "growth")
           \/ HasWholeWord(text, "increase")
        THEN {"growth metric"} ELSE {})
  \cup (IF HasWholeWord(text, "margin") \/ ProfitMarginRegex(text)
        THEN {"profitability metric"} ELSE {})

\* _identify_formula_concepts without the test of line 317: the rules are
\* applied to every text
IdentifyFormulaConceptsAnyText(text) ==
  LET text_lower == Lower(text) IN
  (IF Contains(text_lower, "sum(") THEN {"sum calculation", "aggregation formula"} ELSE {})
  \cup (IF AnyIn({"average(", "avg("}, text_lower) THEN {"average calculation"} ELSE {})
  \cup (IF AnyIn({"if(", "sumif(", "countif(", "averageif("}, text_lower)
        THEN {"conditional calculation"} ELSE {})
  \cup (IF AnyIn({"vlookup(", "hlookup(", "index(", "match(", "xlookup("}, text_lower)
        THEN {"lookup formula"} ELSE {})
  \cup (IF Contains(text, "/") /\ ~AnyIn({"sum(", "average("}, text_lower)
        THEN {"ratio calculation", "percentage calculation"} ELSE {})

\* BusinessConceptMapper._identify_formula_concepts
IdentifyFormulaConcepts(text) ==
  LET text_lower == Lower(text) IN
  IF ~StartsWith(text, "=") THEN {}
  ELSE (IF Contains(text_lower, "sum(") THEN {"sum calculation", "aggregation formula"} ELSE {})
       \cup (IF AnyIn({"average(", "avg("}, text_lower) THEN {"average calculation"} ELSE {})
       \cup (IF AnyIn({"if(", "sumif(", "countif(", "averageif("}, text_lower)
             THEN {"conditional calculation"} ELSE {})
       \cup (IF AnyIn({"vlookup(", "hlookup(", "index(", "match(", "xlookup("}, text_lower)
             THEN {"lookup formula"} ELSE {})
       \cup (IF Contains(text, "/") /\ ~AnyIn({"sum(", "average("}, text_lower)
             THEN {"ratio calculation", "percentage calculation"} ELSE {})

\* BusinessConceptMapper.identify_concepts, as the set the returned list holds
IdentifyConcepts(text) ==
  LET text_lower == Lower(text) IN
  {Concepts[i].name : i \in {k \in 1..Len(Concepts) : MatchesConcept(text_lower, Concepts[k])}}
  \cup IdentifyPatterns(text_lower)
  \cup IdentifyFormulaConcepts(text)

(***************************************************************************)
(* Scalars of the grid: None, str, int and bool.                           *)
(***************************************************************************)
NoneV == [t |-> "none", s |-> "", n |-> 0, b |-> FALSE]
StrV(x) == [t |-> "str", s |-> x, n |-> 0, b |-> FALSE]
IntV(x) == [t |-> "int", s |-> "", n |-> x, b |-> FALSE]
BoolV(x) == [t |-> "bool", s |-> "", n |-> 0, b |-> x]

\* isinstance(value, str)
IsStr(value) == value.t = "str"

\* isinstance(value, (int, float)); bool is a subclass of int
IsNumber(value) == value.t \in {"int", "bool"}

\* the number a numeric scalar compares as
NumOf(value) == IF value.t = "bool" THEN (IF value.b THEN 1 ELSE 0) ELSE value.n

\* str(value)
StrOf(value) ==
  CASE value.t = "str" -> value.s
    [] value.t = "int" -> IntToStr(value.n)
    [] value.t = "bool" -> (IF value.b THEN "True" ELSE "False")
    [] OTHER -> "None"

\* bool(value)
Truthy(value) ==
  CASE value.t = "str" -> value.s # ""
    [] value.t = "int" -> value.n # 0
    [] value.t = "bool" -> value.b
    [] OTHER -> FALSE

\* value is None or (isinstance(value, str) and not value.strip())
IsBlank(value) == value.t = "none" \/ (IsStr(value) /\ Strip(value.s) = "")

(***************************************************************************)
(* Cell indexer (SemanticSearchEngine._process_sheet and helpers).         *)
(***************************************************************************)
\* _analyze_formula_concepts without lines 148-149: a division under a margin
\* header is tagged as a ratio only
AnalyzeFormulaConceptsRatioOnly(formula, header) ==
  LET formula_lower == Lower(formula)
      header_lower == Lower(header)
  IN (IF AnyIn({"/", "divide"}, formula_lower)
         /\ AnyIn({"margin", "ratio", "rate", "percentage", "%"}, header_lower)
      THEN {"ratio calculation"}
      ELSE {})
     \cup (IF Contains(formula_lower, "sum(")
           THEN {"aggregation formula"}
                \cup (IF AnyIn({"revenue", "sales", "income"}, header_lower)
                      THEN {"revenue calculation"}
                      ELSE IF AnyIn({"cost", "expense"}, header_lower)
                           THEN {"cost calculation"} ELSE {})
           ELSE {})
     \cup (IF Contains(formula_lower, "average(") \/ Contains(formula_lower, "avg(")
           THEN {"average calculation"} ELSE {})
     \cup (IF AnyIn({"if(", "sumif(", "countif("}, formula_lower)
           THEN {"conditional calculation"} ELSE {})
     \cup (IF AnyIn({"vlookup(", "index(", "match("}, formula_lower)
           THEN {"lookup formula"} ELSE {})

\* SemanticSearchEngine._analyze_formula_concepts
AnalyzeFormulaConcepts(formula, header) ==
  LET formula_lower == Lower(formula)
      header_lower == Lower(header)
  IN (IF AnyIn({"/", "divide"}, formula_lower)
         /\ AnyIn({"margin", "ratio", "rate", "percentage", "%"}, header_lower)
      THEN {"ratio calculation"}
           \cup (IF Contains(header_lower, "margin") THEN {"profitability metric"} ELSE {})
      ELSE {})
     \cup (IF Contains(formula_lower, "sum(")
           THEN {"aggregation formula"}
                \cup (IF AnyIn({"revenue", "sales", "income"}, header_lower)
                      THEN {"revenue calculation"}
                      ELSE IF AnyIn({"cost", "expense"}, header_lower)
                           THEN {"cost calculation"} ELSE {})
           ELSE {})
     \cup (IF Contains(formula_lower, "average(") \/ Contains(formula_lower, "avg(")
           THEN {"average calculation"} ELSE {})
     \cup (IF AnyIn({"if(", "sumif(", "countif("}, formula_lower)
           THEN {"conditional calculation"} ELSE {})
     \cup (IF AnyIn({"vlookup(", "index(", "match("}, formula_lower)
           THEN {"lookup formula"} ELSE {})

\* SemanticSearchEngine._analyze_value_concepts
AnalyzeValueConcepts(value, header, context) ==
  LET header_lower == Lower(header)
      context_lower == Lower(context)
  IN (IF IsStr(value) /\ Contains(value.s, "%")
      THEN {"percentage value"}
           \cup (IF AnyIn({"margin", "growth", "rate"}, header_lower)
                 THEN {"percentage calculation"} ELSE {})
      ELSE {})
     \cup (IF IsNumber(value) /\ NumOf(value) > 1000
              /\ AnyIn({"revenue", "sales", "income", "profit", "cost", "expense"}, context_lower)
           THEN {"monetary value"} ELSE {})

\* the context text _identify_concepts hands to the tagger
ContextText(value, formula, header, sheet_name) ==
  Lower(Join((IF header # "" THEN <<header>> ELSE <<>>)
             \o (IF IsStr(value) THEN <<value.s>> ELSE <<>>)
             \o (IF formula # "" THEN <<formula>> ELSE <<>>)
             \o <<sheet_name>>, " "))

\* SemanticSearchEngine._identify_concepts, as the set the returned list holds
IdentifyCellConcepts(value, formula, header, sheet_name) ==
  LET context_text == ContextText(value, formula, header, sheet_name)
  IN IdentifyConcepts(context_text)
     \cup (IF formula # "" THEN AnalyzeFormulaConcepts(formula, header) ELSE {})
     \cup (IF IsNumber(value) THEN AnalyzeValueConcepts(value, header, context_text) ELSE {})

\* the embedding slot of a cell that has not been embedded
NoEmbedding == [set |-> FALSE, text |-> "", vec |-> 0]

\* headers of _process_sheet: column index (0-based) -> trimmed first-row string
HeaderOf(data, col_idx) ==
  IF col_idx + 1 <= Len(data[1]) /\ IsStr(data[1][col_idx + 1]) /\ Strip(data[1][col_idx + 1].s) # ""
  THEN Strip(data[1][col_idx + 1].s)
  ELSE ""

\* the SpreadsheetCell _process_sheet builds at (row_idx, col_idx);
\* business_concepts holds the members of the list of line 136, the order of
\* which is the hash seed's (ReadCell)
MakeCell(sheet_name, data, row_idx, col_idx) ==
  LET value == data[row_idx + 1][col_idx + 1]
      header_context == HeaderOf(data, col_idx)
      formula == IF IsStr(value) /\ StartsWith(value.s, "=") THEN value.s ELSE ""
  IN [sheet_name |-> sheet_name,
      row |-> row_idx,
      col |-> col_idx,
      value |-> value,
      formula |-> formula,
      header_context |-> header_context,
      business_concepts |-> IdentifyCellConcepts(value, formula, header_context, sheet_name),
      semantic_embedding |-> NoEmbedding]

RECURSIVE ProcessRowSkipsFalsy(_, _, _, _)
\* the inner loop with the test `if not value`: 0 and False are skipped too
ProcessRowSkipsFalsy(sheet_name, data, row_idx, col_idx) ==
  IF col_idx >= Len(data[row_idx + 1]) THEN <<>>
  ELSE (IF IsBlank(data[row_idx + 1][col_idx + 1]) \/ ~Truthy(data[row_idx + 1][col_idx + 1])
        THEN <<>>
        ELSE <<MakeCell(sheet_name, data, row_idx, col_idx)>>)
       \o ProcessRowSkipsFalsy(sheet_name, data, row_idx, col_idx + 1)

RECURSIVE ProcessRow(_, _, _, _)
\* the inner loop of _process_sheet over one row, from column col_idx on
ProcessRow(sheet_name, data, row_idx, col_idx) ==
  IF col_idx >= Len(data[row_idx + 1]) THEN <<>>
  ELSE (IF IsBlank(data[row_idx + 1][col_idx + 1]) THEN <<>>
        ELSE <<MakeCell(sheet_name, data, row_idx, col_idx)>>)
       \o ProcessRow(sheet_name, data, row_idx, col_idx + 1)

RECURSIVE ProcessRows(_, _, _)
\* the outer loop of _process_sheet, from row row_idx on
ProcessRows(sheet_name, data, row_idx) ==
  IF row_idx >= Len(data) THEN <<>>
  ELSE ProcessRow(sheet_name, data, row_idx, 0)
       \o ProcessRows(sheet_name, data, row_idx + 1)

\* SemanticSearchEngine._process_sheet: the cells it appends to self.cells
ProcessSheet(sheet_name, data) ==
  IF data = <<>> THEN <<>> ELSE ProcessRows(sheet_name, data, 0)

(***************************************************************************)
(* The order of the sets.  A process runs under one string hash seed,      *)
(* which fixes the order in which each set it builds iterates: the same    *)
(* set built the same way iterates the same way throughout the process,    *)
(* and any order can be the one.  hashSeed holds what the process has read *)
(* of these orders so far: tags gives the order of the tag list of a cell  *)
(* (line 136) by what the list was built from, words the order of the      *)
(* words a text shares with a query (lines 359 and 377) by the two texts.  *)
(* An order is drawn when it is first read; a set of less than two members *)
(* has one order.                                                          *)
(***************************************************************************)
\* nothing read yet
NoOrders == [tags |-> <<>>, words |-> <<>>]

\* what the tag list of a cell was built from
TagKey(cell) == <<cell.value, cell.formula, cell.header_context, cell.sheet_name>>

\* the hash seeds that agree with seed and fix the order of the tags of cell
RevealTags(seed, cell) ==
  IF Cardinality(cell.business_concepts) < 2 \/ TagKey(cell) \in DOMAIN seed.tags
  THEN {seed}
  ELSE {[seed EXCEPT !.tags = (TagKey(cell) :> order) @@ seed.tags] :
          order \in Orders(Cardinality(cell.business_concepts))}

\* the number of the order of the tags of cell under seed
TagOrder(seed, cell) ==
  IF Cardinality(cell.business_concepts) < 2 THEN 0 ELSE seed.tags[TagKey(cell)]

\* cell as the code reads it: business_concepts is the list of line 136
ReadCell(seed, cell) ==
  [cell EXCEPT !.business_concepts = SetToList(TagOrder(seed, cell), cell.business_concepts)]
(***************************************************************************)
(* Embedding index and provider.                                           *)
(***************************************************************************)
\* a claim that states a score as a fraction reads the float in units of 1/Scale
Scale == 60000

\* the float nearest to a score, in units of 1/Scale
Units(score) == FScaled(score, Scale)

\* cosine values (in thousandths) the provider's vectors produce, in the order
\* the checksums select them: the ends of the range [-1, 1] of line 231, a
\* negative value between them, and the values around 0.25 and 0.3 at which the
\* floor of line 242 and the threshold of line 268 decide
SimLevels == <<0 - 500, 0 - 1000, 100, 250, 300, 301, 600, 1000>>

\* the cosine values as floats
SimLevelFloats == [i \in 1..Len(SimLevels) |-> Float(SimLevels[i], 1000)]

\* the float 1.0
FOne == Float(1, 1)

\* characters the provider's tokenizer tells apart, by position
CodeChars == " abcdefghijklmnopqrstuvwxyzABCDEFGHIJKLMNOPQRSTUVWXYZ0123456789=%/():!'._-$"

CodeMap == [c \in CharsOf(CodeChars) |-> IndexIn(CodeChars, c)]

Code(c) == IF c \in DOMAIN CodeMap THEN CodeMap[c] ELSE 0

\* number of distinct vectors of the provider
VecSpace == 997

RECURSIVE VecRange(_, _, _)
\* position-weighted checksum of the characters lo..hi of a text
VecRange(text, lo, hi) ==
  IF lo > hi THEN 0
  ELSE IF lo = hi THEN (lo * Code(Ch(text, lo))) % VecSpace
  ELSE LET mid == (lo + hi) \div 2
       IN (VecRange(text, lo, mid) + VecRange(text, mid + 1, hi)) % VecSpace

\* SentenceTransformer.encode of one text
Encode(text) == [set |-> TRUE, text |-> text, vec |-> VecRange(text, 1, Len(text))]

\* cosine_similarity of two embeddings under a provider model: a float
Cosine(p, a, b) ==
  IF a.vec = b.vec THEN FOne
  ELSE SimLevelFloats[(((a.vec + b.vec) * (p + 1)) % Len(SimLevels)) + 1]

\* the rich text _compute_cell_embeddings builds for a cell
RichText(cell) ==
  Join((IF cell.header_context # "" THEN <<cell.header_context>> ELSE <<>>)
       \o <<StrOf(cell.value)>>
       \o (IF cell.formula # "" THEN <<cell.formula>> ELSE <<>>)
       \o cell.business_concepts
       \o <<cell.sheet_name>>, " ")

\* the text _precompute_concept_embeddings embeds for a concept
ConceptText(concept) ==
  concept.name \o " " \o Join(concept.synonyms, " ") \o " " \o concept.description

\* the texts _precompute_concept_embeddings hands to model.encode, call by call
ConceptEmbeddingTexts == [i \in 1..Len(Concepts) |-> ConceptText(Concepts[i])]

\* self.concept_embeddings, in insertion order
ConceptEmbeddings == [i \in 1..Len(Concepts) |-> Encode(ConceptText(Concepts[i]))]

(***************************************************************************)
(* Query expander (SemanticSearchEngine._process_query).                   *)
(***************************************************************************)
\* the similarity above which _process_query appends a concept name (line 268)
ExpansionThreshold == Float(3, 10)

RECURSIVE ExpandFromAtThreshold(_, _, _)
\* the loop with similarity >= 0.3
ExpandFromAtThreshold(p, query, i) ==
  IF i > Len(Concepts) THEN <<>>
  ELSE (IF FGe(Cosine(p, Encode(query), ConceptEmbeddings[i]), ExpansionThreshold)
        THEN <<Concepts[i].name>> ELSE <<>>)
       \o ExpandFromAtThreshold(p, query, i + 1)

RECURSIVE ExpandFrom(_, _, _)
\* the loop of _process_query from the i-th concept on: the names appended
ExpandFrom(p, query, i) ==
  IF i > Len(Concepts) THEN <<>>
  ELSE (IF FGt(Cosine(p, Encode(query), ConceptEmbeddings[i]), ExpansionThreshold)
        THEN <<Concepts[i].name>> ELSE <<>>)
       \o ExpandFrom(p, query, i + 1)

ProcessQuery(p, query) == Join(<<query>> \o ExpandFrom(p, query, 1), " ")

\* the texts _process_query hands to model.encode, call by call: line 266 is
\* inside the loop over self.concept_embeddings
ProcessQueryEncodes(query) == [i \in 1..Len(ConceptEmbeddings) |-> query]

(***************************************************************************)
(* Ranking engine.                                                         *)
(***************************************************************************)
\* max(relevance_scores) of a non-empty collection of floats
FMaxOf(S) == CHOOSE x \in S : \A y \in S : FLe(y, x)

Min2(a, b) == IF a <= b THEN a ELSE b

\* the relevance a rule of _calculate_concept_relevance appends: 1.0 for a tag
\* inside the query, 0.7 for a word of a tag inside the query, 0.8 for a tag
\* the tagger finds in the query
VerbatimRelevance == Float(1, 1)
WordRelevance == Float(7, 10)
MappedRelevance == Float(8, 10)

\* the queries searched
Queries == {"find revenue totals", "show cost calculations", "rate", ""}

\* queries handed to the relevance functions and to the query expander
ScoreQueries ==
  {"", "rate", "Rate  rate", "show values", "gross profit margin", "total revenue by quarter",
   "summary of costs", "Cost Summary", "margin margin kpi", "find revenue totals",
   "growth rate of sales", "KPI", "  ", " \f",
   "gross profit margin of the cost summary"}

\* concept_mapper.identify_concepts(query_lower) of line 290 for the queries
\* above, computed once for each
QueryConcepts == [query \in Queries \cup ScoreQueries |-> IdentifyConcepts(Lower(query))]

\* _calculate_concept_relevance with the verbatim rule only: neither the rule of
\* a tag word inside the query (0.7) nor the rule of the tagger (0.8)
ConceptRelevanceVerbatimOnly(query, cell_concepts) ==
  IF cell_concepts = <<>> THEN FZero
  ELSE LET query_lower == Lower(query)
       IN IF \E i \in 1..Len(cell_concepts) : Contains(query_lower, Lower(cell_concepts[i]))
          THEN VerbatimRelevance ELSE FZero

\* _calculate_concept_relevance with the verbatim rule testing containment in
\* either direction: the tag inside the query, or the query inside the tag
ConceptRelevanceEitherWay(query, cell_concepts) ==
  IF cell_concepts = <<>> THEN FZero
  ELSE LET query_lower == Lower(query)
           direct == {IF \/ Contains(query_lower, Lower(cell_concepts[i]))
                         \/ Contains(Lower(cell_concepts[i]), query_lower)
                      THEN VerbatimRelevance
                      ELSE IF \E word \in Range(Split(Lower(cell_concepts[i]))) : Contains(query_lower, word)
                           THEN WordRelevance
                           ELSE FZero : i \in 1..Len(cell_concepts)}
           query_concepts == IF query \in DOMAIN QueryConcepts THEN QueryConcepts[query]
                             ELSE IdentifyConcepts(query_lower)
           mapped == IF Range(cell_concepts) \cap query_concepts # {}
                     THEN {MappedRelevance} ELSE {}
       IN FMaxOf(direct \cup mapped \cup {FZero})

\* SemanticSearchEngine._calculate_concept_relevance
ConceptRelevance(query, cell_concepts) ==
  IF cell_concepts = <<>> THEN FZero
  ELSE LET query_lower == Lower(query)
           direct == {IF Contains(query_lower, Lower(cell_concepts[i])) THEN VerbatimRelevance
                      ELSE IF \E word \in Range(Split(Lower(cell_concepts[i]))) : Contains(query_lower, word)
                           THEN WordRelevance
                           ELSE FZero : i \in 1..Len(cell_concepts)}
           query_concepts == IF query \in DOMAIN QueryConcepts THEN QueryConcepts[query]
                             ELSE IdentifyConcepts(query_lower)
           mapped == IF Range(cell_concepts) \cap query_concepts # {}
                     THEN {MappedRelevance} ELSE {}
       IN FMaxOf(direct \cup mapped \cup {FZero})

\* the weights of the header words and of the sheet-name words in
\* _calculate_contextual_relevance (lines 308 and 315)
HeaderWeight == Float(3, 10)
SheetWeight == Float(2, 10)

\* _calculate_contextual_relevance dividing by the number of distinct query words
ContextualRelevanceDistinctWords(query, cell) ==
  LET query_words == Split(Lower(query))
      header_common == Range(Split(Lower(cell.header_context))) \cap Range(query_words)
      sheet_common == Range(Split(Lower(cell.sheet_name))) \cap Range(query_words)
      after_header ==
        IF cell.header_context # "" /\ header_common # {}
        THEN FAdd(FZero, FMul(HeaderWeight, Float(Cardinality(header_common),
                                                  Cardinality(Range(query_words)))))
        ELSE FZero
      relevance ==
        IF sheet_common # {}
        THEN FAdd(after_header, FMul(SheetWeight, Float(Cardinality(sheet_common),
                                                        Cardinality(Range(query_words)))))
        ELSE after_header
  IN FMin(relevance, FOne)

\* SemanticSearchEngine._calculate_contextual_relevance
ContextualRelevance(query, cell) ==
  LET query_words == Split(Lower(query))
      header_common == Range(Split(Lower(cell.header_context))) \cap Range(query_words)
      sheet_common == Range(Split(Lower(cell.sheet_name))) \cap Range(query_words)
      \* relevance after lines 303-308, then after lines 311-315
      after_header ==
        IF cell.header_context # "" /\ header_common # {}
        THEN FAdd(FZero, FMul(HeaderWeight, Float(Cardinality(header_common), Len(query_words))))
        ELSE FZero
      relevance ==
        IF sheet_common # {}
        THEN FAdd(after_header, FMul(SheetWeight, Float(Cardinality(sheet_common), Len(query_words))))
        ELSE after_header
  IN FMin(relevance, FOne)

\* the weights of line 240
SemanticWeight == Float(4, 10)
ConceptWeight == Float(4, 10)
ContextWeight == Float(2, 10)

\* final_score with the weights 0.5, 0.3, 0.2
FinalScoreOtherWeights(similarity, concept_relevance, contextual_relevance) ==
  FAdd(FAdd(FMul(similarity, Float(5, 10)), FMul(concept_relevance, Float(3, 10))),
       FMul(contextual_relevance, ContextWeight))

\* final_score of search for one cell (line 240), added from left to right
FinalScore(similarity, concept_relevance, contextual_relevance) ==
  FAdd(FAdd(FMul(similarity, SemanticWeight), FMul(concept_relevance, ConceptWeight)),
       FMul(contextual_relevance, ContextWeight))

(***************************************************************************)
(* Result formatter.                                                       *)
(***************************************************************************)
RECURSIVE ColLettersPlainBase26(_, _)
\* the while loop without col_num -= 1: plain base 26 with A as the zero digit
ColLettersPlainBase26(col_num, col_letter) ==
  IF col_num > 0
  THEN ColLettersPlainBase26(col_num \div 26, Ch(UpperChars, (col_num % 26) + 1) \o col_letter)
  ELSE col_letter

RECURSIVE ColLetters(_, _)
\* the while loop of _get_excel_cell_reference
ColLetters(col_num, col_letter) ==
  IF col_num > 0
  THEN ColLetters((col_num - 1) \div 26, Ch(UpperChars, ((col_num - 1) % 26) + 1) \o col_letter)
  ELSE col_letter

\* SemanticSearchEngine._get_excel_cell_reference
GetExcelCellReference(row, col) == ColLetters(col + 1, "") \o IntToStr(row + 1)

\* an Optional[str] field of SearchResult
NoneStr == [some |-> FALSE, s |-> ""]
SomeStr(x) == [some |-> TRUE, s |-> x]

\* the location string of a result
Location(cell) ==
  "'" \o cell.sheet_name \o "'!" \o GetExcelCellReference(cell.row, cell.col)

RECURSIVE StrBefore(_, _)
\* a < b of two str: the order of the code points of the first characters
\* that differ, a proper prefix first
StrBefore(a, b) ==
  IF a = "" THEN b # ""
  ELSE IF b = "" THEN FALSE
  ELSE IF Head(a) # Head(b) THEN CodePoint(Head(a)) < CodePoint(Head(b))
  ELSE StrBefore(Tail(a), Tail(b))

RECURSIVE WordsOrdered(_)
\* sorted(S) of a set of words
WordsOrdered(S) ==
  IF S = {} THEN <<>>
  ELSE LET m == CHOOSE x \in S : \A y \in S \ {x} : StrBefore(x, y)
       IN <<m>> \o WordsOrdered(S \ {m})

\* the words of a set in the order in which the set iterates: any of the
\* orders can come out, and `order` tells which
WordsToList(order, S) == Permuted(order, WordsOrdered(S))

\* set(text.lower().split()) & set(query.lower().split())
CommonWords(text, query) == Range(Split(Lower(text))) \cap Range(Split(Lower(query)))

\* what the set of the words a text shares with a query was built from
WordKey(text, query) == <<Split(Lower(text)), Split(Lower(query))>>

\* the hash seeds that agree with seed and fix the order of the words text
\* shares with query
RevealWords(seed, text, query) ==
  IF Cardinality(CommonWords(text, query)) < 2 \/ WordKey(text, query) \in DOMAIN seed.words
  THEN {seed}
  ELSE {[seed EXCEPT !.words = (WordKey(text, query) :> order) @@ seed.words] :
          order \in Orders(Cardinality(CommonWords(text, query)))}

\* the number of the order of the words text shares with query under seed
WordOrder(seed, text, query) ==
  IF Cardinality(CommonWords(text, query)) < 2 THEN 0 ELSE seed.words[WordKey(text, query)]

\* the hash seeds that agree with seed and fix every order a search reads of
\* a cell for a query: the tags, and the words of the explanation
RevealCell(seed, query, cell) ==
  UNION {UNION {RevealWords(s2, cell.sheet_name, query) :
                  s2 \in RevealWords(s1, cell.header_context, query)} :
           s1 \in RevealTags(seed, cell)}

\* _generate_explanation with the formula branch testing sum and total first,
\* then average, then formula, calculation and computed
GenerateExplanationSumFirst(seed, query, cell) ==
  LET query_lower == Lower(query)
      query_words == Range(Split(query_lower))
      matching_concepts ==
        SelectSeq(cell.business_concepts,
                  LAMBDA concept : \E word \in Range(Split(Lower(concept))) :
                                     Contains(query_lower, word))
      common_words == Range(Split(Lower(cell.header_context))) \cap query_words
      common_sheet_words == Range(Split(Lower(cell.sheet_name))) \cap query_words
      explanations ==
        (IF matching_concepts # <<>>
         THEN <<"Contains " \o Join(matching_concepts, ", ")>> ELSE <<>>)
        \o (IF cell.header_context # "" /\ common_words # {}
            THEN <<"Header contains: " \o Join(WordsToList(WordOrder(seed, cell.header_context, query), common_words), ", ")>>
            ELSE <<>>)
        \o (IF cell.formula = "" THEN <<>>
            ELSE IF AnyIn({"sum", "total"}, query_lower) /\ Contains(Lower(cell.formula), "sum")
                 THEN <<"Contains sum calculation">>
            ELSE IF Contains(query_lower, "average") /\ Contains(Lower(cell.formula), "average")
                 THEN <<"Contains average calculation">>
            ELSE IF AnyIn({"formula", "calculation", "computed"}, query_lower)
                 THEN <<"Contains a formula">>
            ELSE <<>>)
        \o (IF common_sheet_words # {}
            THEN <<"In relevant sheet: " \o Join(WordsToList(WordOrder(seed, cell.sheet_name, query), common_sheet_words), ", ")>>
            ELSE <<>>)
  IN IF explanations = <<>> THEN "Semantically related to your query"
     ELSE Join(explanations, "; ")

\* SemanticSearchEngine._generate_explanation
GenerateExplanation(seed, query, cell) ==
  LET query_lower == Lower(query)
      query_words == Range(Split(query_lower))
      matching_concepts ==
        SelectSeq(cell.business_concepts,
                  LAMBDA concept : \E word \in Range(Split(Lower(concept))) :
                                     Contains(query_lower, word))
      common_words == Range(Split(Lower(cell.header_context))) \cap query_words
      common_sheet_words == Range(Split(Lower(cell.sheet_name))) \cap query_words
      explanations ==
        (IF matching_concepts # <<>>
         THEN <<"Contains " \o Join(matching_concepts, ", ")>> ELSE <<>>)
        \o (IF cell.header_context # "" /\ common_words # {}
            THEN <<"Header contains: " \o Join(WordsToList(WordOrder(seed, cell.header_context, query), common_words), ", ")>>
            ELSE <<>>)
        \o (IF cell.formula = "" THEN <<>>
            ELSE IF AnyIn({"formula", "calculation", "computed"}, query_lower)
                 THEN <<"Contains a formula">>
            ELSE IF Contains(query_lower, "average") /\ Contains(Lower(cell.formula), "average")
                 THEN <<"Contains average calculation">>
            ELSE IF AnyIn({"sum", "total"}, query_lower) /\ Contains(Lower(cell.formula), "sum")
                 THEN <<"Contains sum calculation">>
            ELSE <<>>)
        \o (IF common_sheet_words # {}
            THEN <<"In relevant sheet: " \o Join(WordsToList(WordOrder(seed, cell.sheet_name, query), common_sheet_words), ", ")>>
            ELSE <<>>)
  IN IF explanations = <<>> THEN "Semantically related to your query"
     ELSE Join(explanations, "; ")

\* search handing the expanded query to _calculate_contextual_relevance: the
\* text the query embedding was computed from instead of the raw query
ScoreCellExpandedQuery(p, query_embedding, query, cell) ==
  FinalScore(Cosine(p, query_embedding, cell.semantic_embedding),
             ConceptRelevance(query, cell.business_concepts),
             ContextualRelevance(query_embedding.text, cell))

\* final_score of search for one cell, given the embedding of the expanded query
ScoreCell(p, query_embedding, query, cell) ==
  FinalScore(Cosine(p, query_embedding, cell.semantic_embedding),
             ConceptRelevance(query, cell.business_concepts),
             ContextualRelevance(query, cell))

RECURSIVE ReplaceCh(_, _, _)
\* str.replace of one character by another
ReplaceCh(s, old, new) ==
  IF s = "" THEN ""
  ELSE (IF Head(s) = old THEN new ELSE Head(s)) \o ReplaceCh(Tail(s), old, new)

RECURSIVE TitleFrom(_, _)
\* str.title() from a position on: a character after a cased one is
\* lower-cased, any other is title-cased
TitleFrom(s, previous_is_cased) ==
  IF s = "" THEN ""
  ELSE LET c == Head(s)
       IN (IF previous_is_cased THEN LowerCh(c) ELSE TitleCh(c))
          \o TitleFrom(Tail(s), c \in CasedSet)

\* str.title()
Title(s) == TitleFrom(s, FALSE)

\* SemanticSearchEngine._generate_concept_name
GenerateConceptName(cell) ==
  IF cell.header_context # "" THEN cell.header_context
  ELSE IF cell.business_concepts # <<>>
       THEN Title(ReplaceCh(cell.business_concepts[1], "_", " "))
       ELSE "Cell " \o GetExcelCellReference(cell.row, cell.col)

\* SemanticSearchEngine._generate_business_context
GenerateBusinessContext(cell) ==
  Join((IF cell.business_concepts # <<>>
        THEN <<"This is a " \o ReplaceCh(cell.business_concepts[1], "_", " ")>> ELSE <<>>)
       \o (IF cell.formula # "" THEN <<"calculated using a formula">> ELSE <<>>)
       \o <<"located in the '" \o cell.sheet_name \o "' sheet">>, " ") \o "."

\* the SearchResult search builds for a cell
MakeResult(seed, query, cell, final_score) ==
  [concept_name |-> GenerateConceptName(cell),
   location |-> Location(cell),
   business_context |-> GenerateBusinessContext(cell),
   explanation |-> GenerateExplanation(seed, query, cell),
   formula |-> IF cell.formula # "" THEN SomeStr(cell.formula) ELSE NoneStr,
   value |-> IF Truthy(cell.value) THEN SomeStr(StrOf(cell.value)) ELSE NoneStr,
   relevance_score |-> final_score]

\* the relevance threshold of search (line 242)
Floor == Float(1, 10)

\* the body of the scoring loop with final_score >= 0.1
ScoreOneAtFloor(seed, p, query_embedding, query, cell) ==
  IF cell.semantic_embedding.set
  THEN LET read == ReadCell(seed, cell)
           final_score == ScoreCell(p, query_embedding, query, read)
       IN IF FGe(final_score, Floor) THEN <<MakeResult(seed, query, read, final_score)>> ELSE <<>>
  ELSE <<>>

\* the body of the scoring loop without the test of line 242: every embedded
\* cell is a result
ScoreOneNoFloor(seed, p, query_embedding, query, cell) ==
  IF cell.semantic_embedding.set
  THEN LET read == ReadCell(seed, cell)
       IN <<MakeResult(seed, query, read, ScoreCell(p, query_embedding, query, read))>>
  ELSE <<>>

\* lines 227-252: the body of the scoring loop for one cell of self.cells,
\* the results it appends: none for a cell without an embedding or at or
\* below the floor
ScoreOne(seed, p, query_embedding, query, cell) ==
  IF cell.semantic_embedding.set
  THEN LET read == ReadCell(seed, cell)
           final_score == ScoreCell(p, query_embedding, query, read)
       IN IF FGt(final_score, Floor) THEN <<MakeResult(seed, query, read, final_score)>> ELSE <<>>
  ELSE <<>>

RECURSIVE ScoreFrom(_, _, _, _, _, _)
\* the scoring loop of search over the cell list, from index i on
ScoreFrom(seed, p, query_embedding, query, cs, i) ==
  IF i > Len(cs) THEN <<>>
  ELSE ScoreOne(seed, p, query_embedding, query, cs[i])
       \o ScoreFrom(seed, p, query_embedding, query, cs, i + 1)

RECURSIVE InsertDescBeforeEqual(_, _)
\* insertion that puts r before the entries of equal score: an unstable sort
InsertDescBeforeEqual(sorted, r) ==
  IF sorted = <<>> THEN <<r>>
  ELSE IF FGt(Head(sorted).relevance_score, r.relevance_score)
       THEN <<Head(sorted)>> \o InsertDescBeforeEqual(Tail(sorted), r)
       ELSE <<r>> \o sorted

RECURSIVE InsertDesc(_, _)
\* insert r into a list sorted by descending score, after every entry that
\* scores at least as much
InsertDesc(sorted, r) ==
  IF sorted = <<>> THEN <<r>>
  ELSE IF FGe(Head(sorted).relevance_score, r.relevance_score)
       THEN <<Head(sorted)>> \o InsertDesc(Tail(sorted), r)
       ELSE <<r>> \o sorted

RECURSIVE SortDescFrom(_, _, _)
SortDescFrom(results, i, acc) ==
  IF i > Len(results) THEN acc
  ELSE SortDescFrom(results, i + 1, InsertDesc(acc, results[i]))

\* results.sort(key=lambda x: x.relevance_score, reverse=True): stable
SortByScoreDesc(results) == SortDescFrom(results, 1, <<>>)

\* results[:max_results]
SlicePrefix(results, max_results) ==
  IF max_results >= 0
  THEN SubSeq(results, 1, Min2(max_results, Len(results)))
  ELSE SubSeq(results, 1, Len(results) + max_results)

RECURSIVE RevealFrom(_, _, _, _)
\* the hash seeds that agree with seed and fix every order a search for
\* query reads of the cells of a list from index i on
RevealFrom(seed, query, cs, i) ==
  IF i > Len(cs) THEN {seed}
  ELSE UNION {RevealFrom(s, query, cs, i + 1) :
                s \in IF cs[i].semantic_embedding.set THEN RevealCell(seed, query, cs[i])
                      ELSE {seed}}

\* lines 218-255 of search: the sorted list of every cell above the floor
RankedResults(seed, p, query, cs) ==
  SortByScoreDesc(ScoreFrom(seed, p, Encode(ProcessQuery(p, query)), query, cs, 1))

\* SemanticSearchEngine.search on a cell list, when the provider answers
SearchResults(seed, p, query, max_results, cs) ==
  IF cs = <<>> THEN <<>>
  ELSE SlicePrefix(RankedResults(seed, p, query, cs), max_results)

\* SemanticSearchEngine.has_data
HasData(cs) == Len(cs) > 0

(***************************************************************************)
(* Inputs: grids handed to load_spreadsheet_data and queries handed to     *)
(* search.  A grid is the dictionary {"sheets": {name: {"data": rows}}} in *)
(* declaration order; hasSheets and hasData tell whether the "sheets" and  *)
(* "data" keys are present.                                                *)
(***************************************************************************)
Sheet(name, data) == [name |-> name, hasData |-> TRUE, data |-> data]
SheetWithoutData(name) == [name |-> name, hasData |-> FALSE, data |-> <<>>]

\* the sheet of the scenario: a "Total Revenue" column that holds =SUM(B2:B4)
GridRevenue ==
  [hasSheets |-> TRUE,
   sheets |-> <<Sheet("Q1", << <<StrV("Total Revenue")>>, <<StrV("=SUM(B2:B4)")>> >>)>>]

GridRates ==
  [hasSheets |-> TRUE,
   sheets |-> <<Sheet("Q1",
                      << <<StrV("Item"), StrV("Rate"), StrV("Cost")>>,
                         <<StrV("x"), StrV("=A1/B1"), IntV(1500)>> >>)>>]

GridCosts ==
  [hasSheets |-> TRUE,
   sheets |-> <<Sheet("Empty", <<>>),
                Sheet("Rate",
                      << <<StrV(""), StrV(" Rate ")>>,
                         <<IntV(0), StrV("5%")>>,
                         <<>>,
                         <<BoolV(FALSE)>> >>)>>]

GridBlank ==
  [hasSheets |-> TRUE,
   sheets |-> <<Sheet("Blank", << <<StrV(""), NoneV>>, <<StrV("  ")>> >>)>>]

GridBroken ==
  [hasSheets |-> TRUE,
   sheets |-> <<Sheet("Rate", << <<StrV("Rate")>>, <<IntV(7)>> >>),
                SheetWithoutData("Broken")>>]

\* the dictionary {}: no "sheets" key
GridNoSheets == [hasSheets |-> FALSE, sheets |-> <<>>]

\* self.sheet_data after construction (line 33): the dictionary {}
NoGrid == [hasSheets |-> FALSE, sheets |-> <<>>]

\* the workbooks of the callers: their cells carry few tags, so that every
\* order of the tag lists is explored
Grids == {GridRates, GridCosts, GridBlank, GridBroken, GridNoSheets}

\* max_results when the caller passes none (the default of search)
DefaultMaxResults == 10

MaxResultsValues == ((0 - NegResultsBound)..MaxResultsBound) \cup {DefaultMaxResults}

(***************************************************************************)
(* State.                                                                  *)
(***************************************************************************)
VARIABLES
  provider,     \* the provider model of the process
  hashSeed,     \* the orders of its sets the process has read so far
  cells,        \* self.cells
  sheet_data,   \* self.sheet_data
  loadPc,       \* where load_spreadsheet_data stands: "idle", "sheets", "embed"
  loadNext,     \* next sheet to process, or next cell to embed (1-based)
  loadOutcome,  \* how the last finished load ended: "none", "ok", "raised"
  snapshot,     \* self.cells as it was when the current or last load was called
  lastSearch,   \* the answer of a search the caller has not taken yet
  searchRun,    \* the search in progress: where it stands and what it holds
  addr,         \* the last address formatted by _get_excel_cell_reference
  providerCalls,\* calls of model.encode made by the constructor or, once a load
                \* has been called, by the current or last load
  probe         \* the last call of a pure method made on its own, with its answer

vars == <<provider, hashSeed, cells, sheet_data, loadPc, loadNext, loadOutcome,
          snapshot, lastSearch, searchRun, addr, providerCalls, probe>>

engineVars == <<cells, sheet_data>>

\* lastSearch: status "none", "returned" or "raised"; for a search that returned,
\* the query and max_results it was called with, the list it returned and the
\* number of calls of model.encode it made
NoSearch ==
  [status |-> "none", query |-> "", max_results |-> 0, results |-> <<>>, encode_calls |-> 0,
   overlapped |-> FALSE]

\* the answer of a search the provider failed
RaisedAnswer ==
  [status |-> "raised", query |-> "", max_results |-> 0, results |-> <<>>, encode_calls |-> 0,
   overlapped |-> FALSE]

NoAddr == [row |-> 0, col |-> 0, ref |-> ""]

\* no pure method has been called on its own
NoProbe == [op |-> "none"]

(***************************************************************************)
(* A search in progress.  search reads self.cells at line 215 and again at *)
(* line 226, where the for loop takes an iterator of the list object that  *)
(* self.cells names at that moment; a load that runs meanwhile has         *)
(* replaced, extended or embedded the list in between.  Line 51 of a load  *)
(* binds self.cells to a new list: a loop that has started goes on over    *)
(* the list object it took, which no load touches any more.                *)
(***************************************************************************)
\* no search is in progress
NoRun ==
  [pc |-> "idle", query |-> "", query_embedding |-> [set |-> FALSE, text |-> "", vec |-> 0],
   live |-> TRUE, list |-> <<>>, next |-> 1, results |-> <<>>, overlapped |-> FALSE]

\* a search in progress that a step of a load other than line 51 ran into
LoadStepUnderSearch(run) ==
  IF run.pc = "idle" THEN run ELSE [run EXCEPT !.overlapped = TRUE]

\* a search in progress that line 51 of a load ran into: a loop over the
\* list self.cells named keeps that list, with the cells cs it held
RebindUnderSearch(run, cs) ==
  IF run.pc = "idle" THEN run
  ELSE IF run.pc = "loop" /\ run.live
       THEN [run EXCEPT !.overlapped = TRUE, !.live = FALSE, !.list = cs]
       ELSE [run EXCEPT !.overlapped = TRUE]

\* the list the loop of line 226 iterates
LoopList(run, cs) == IF run.live THEN cs ELSE run.list

\* SemanticSearchEngine.__init__
Init ==
  /\ provider \in 0..(NumProviders - 1)
  /\ hashSeed = NoOrders
  /\ cells = <<>>
  /\ sheet_data = NoGrid
  /\ loadPc = "idle"
  /\ loadNext = 1
  /\ loadOutcome = "none"
  /\ snapshot = <<>>
  /\ lastSearch = NoSearch
  /\ searchRun = NoRun
  /\ addr = NoAddr
  /\ providerCalls = Len(ConceptEmbeddingTexts)
  /\ probe = NoProbe

\* no answer is waiting to be taken
Quiet == lastSearch = NoSearch

(***************************************************************************)
(* load_spreadsheet_data, statement by statement.                          *)
(***************************************************************************)
\* LoadBegin without line 51: the cell list is not cleared
LoadBeginKeepsCells(g) ==
  /\ Quiet
  /\ loadPc = "idle"
  /\ sheet_data' = g
  /\ snapshot' = cells
  /\ cells' = cells
  /\ loadNext' = 1
  /\ IF g.hasSheets
     THEN loadPc' = "sheets" /\ loadOutcome' = loadOutcome
     ELSE loadPc' = "idle" /\ loadOutcome' = "raised"
  /\ providerCalls' = 0
  /\ searchRun' = RebindUnderSearch(searchRun, cells)
  /\ UNCHANGED <<provider, hashSeed, lastSearch, addr, probe>>

\* lines 50-53: store the grid, clear the cell list, look up "sheets"
LoadBegin(g) ==
  /\ Quiet
  /\ loadPc = "idle"
  /\ sheet_data' = g
  /\ snapshot' = cells
  /\ cells' = <<>>
  /\ loadNext' = 1
  /\ IF g.hasSheets
     THEN loadPc' = "sheets" /\ loadOutcome' = loadOutcome
     ELSE loadPc' = "idle" /\ loadOutcome' = "raised"
  /\ providerCalls' = 0
  /\ searchRun' = RebindUnderSearch(searchRun, cells)
  /\ UNCHANGED <<provider, hashSeed, lastSearch, addr, probe>>

\* lines 53-54: one iteration of the loop over the sheets
LoadSheet ==
  /\ Quiet
  /\ loadPc = "sheets"
  /\ loadNext <= Len(sheet_data.sheets)
  /\ LET sh == sheet_data.sheets[loadNext] IN
       IF sh.hasData
       THEN /\ cells' = cells \o ProcessSheet(sh.name, sh.data)
            /\ loadNext' = loadNext + 1
            /\ UNCHANGED <<loadPc, loadOutcome>>
       ELSE /\ loadPc' = "idle"
            /\ loadOutcome' = "raised"
            /\ loadNext' = 1
            /\ UNCHANGED cells
  /\ searchRun' = LoadStepUnderSearch(searchRun)
  /\ UNCHANGED <<provider, hashSeed, sheet_data, snapshot, lastSearch, addr, providerCalls, probe>>

\* line 57: the loop over the sheets is over, _compute_cell_embeddings starts
LoadStartEmbedding ==
  /\ Quiet
  /\ loadPc = "sheets"
  /\ loadNext > Len(sheet_data.sheets)
  /\ loadPc' = "embed"
  /\ loadNext' = 1
  /\ searchRun' = LoadStepUnderSearch(searchRun)
  /\ UNCHANGED <<provider, hashSeed, cells, sheet_data, loadOutcome, snapshot, lastSearch, addr, providerCalls, probe>>

\* the iteration embedding str(cell.value) alone instead of the rich text
LoadEmbedCellValueOnly(providerRaises) ==
  /\ Quiet
  /\ loadPc = "embed"
  /\ loadNext <= Len(cells)
  /\ IF providerRaises
     THEN /\ loadPc' = "idle"
          /\ loadOutcome' = "raised"
          /\ loadNext' = 1
          /\ UNCHANGED cells
     ELSE /\ cells' = [cells EXCEPT ![loadNext].semantic_embedding = Encode(StrOf(cells[loadNext].value))]
          /\ loadNext' = loadNext + 1
          /\ UNCHANGED <<loadPc, loadOutcome>>
  /\ providerCalls' = providerCalls + 1
  /\ searchRun' = LoadStepUnderSearch(searchRun)
  /\ UNCHANGED <<provider, hashSeed, sheet_data, snapshot, lastSearch, addr, probe>>

\* lines 193-211: one iteration of _compute_cell_embeddings, which reads the
\* tag list of the cell; the provider answers or raises
LoadEmbedCell(providerRaises) ==
  /\ Quiet
  /\ loadPc = "embed"
  /\ loadNext <= Len(cells)
  /\ \E seed \in RevealTags(hashSeed, cells[loadNext]) :
       /\ hashSeed' = seed
       /\ IF providerRaises
          THEN /\ loadPc' = "idle"
               /\ loadOutcome' = "raised"
               /\ loadNext' = 1
               /\ UNCHANGED cells
          ELSE /\ cells' = [cells EXCEPT ![loadNext].semantic_embedding =
                                           Encode(RichText(ReadCell(seed, cells[loadNext])))]
               /\ loadNext' = loadNext + 1
               /\ UNCHANGED <<loadPc, loadOutcome>>
  /\ providerCalls' = providerCalls + 1
  /\ searchRun' = LoadStepUnderSearch(searchRun)
  /\ UNCHANGED <<provider, sheet_data, snapshot, lastSearch, addr, probe>>

\* line 59: every cell is embedded, the load returns
LoadFinish ==
  /\ Quiet
  /\ loadPc = "embed"
  /\ loadNext > Len(cells)
  /\ loadPc' = "idle"
  /\ loadOutcome' = "ok"
  /\ loadNext' = 1
  /\ searchRun' = LoadStepUnderSearch(searchRun)
  /\ UNCHANGED <<provider, hashSeed, cells, sheet_data, snapshot, lastSearch, addr, providerCalls, probe>>

(***************************************************************************)
(* search, read by read of self.cells.  Lines 219-222 ask the provider and *)
(* touch nothing of the engine: they are one step, which ends where the    *)
(* loop of line 226 takes the list.  max_results is read by line 257 only  *)
(* and is drawn there.                                                     *)
(***************************************************************************)
\* the answer of a search that returned
ReturnedAnswer(query, max_results, results, encode_calls, overlapped) ==
  [status |-> "returned", query |-> query, max_results |-> max_results,
   results |-> results, encode_calls |-> encode_calls, overlapped |-> overlapped]

\* search called, without lines 215-216: the provider is asked even when no
\* cell is indexed
SearchBeginWithoutEmptyCheck(query) ==
  /\ Quiet
  /\ searchRun.pc = "idle"
  /\ searchRun' = [NoRun EXCEPT !.pc = "encode", !.query = query,
                                !.overlapped = loadPc # "idle"]
  /\ UNCHANGED <<provider, hashSeed, cells, sheet_data, loadPc, loadNext, loadOutcome,
                 snapshot, lastSearch, addr, providerCalls, probe>>

\* search called, lines 215-216: the first read of self.cells; an empty list
\* is answered at once
SearchBegin(query) ==
  /\ Quiet
  /\ searchRun.pc = "idle"
  /\ IF cells = <<>>
     THEN /\ \E max_results \in MaxResultsValues :
               lastSearch' = ReturnedAnswer(query, max_results, <<>>, 0, loadPc # "idle")
          /\ UNCHANGED searchRun
     ELSE /\ searchRun' = [NoRun EXCEPT !.pc = "encode", !.query = query,
                                        !.overlapped = loadPc # "idle"]
          /\ UNCHANGED lastSearch
  /\ UNCHANGED <<provider, hashSeed, cells, sheet_data, loadPc, loadNext, loadOutcome,
                 snapshot, addr, providerCalls, probe>>

\* lines 219-226: _process_query and the embedding of the expanded query; the
\* provider answers every call or raises at one, which ends the search; the
\* loop then takes the list self.cells names
SearchEncode(providerRaises) ==
  /\ Quiet
  /\ searchRun.pc = "encode"
  /\ IF providerRaises
     THEN /\ lastSearch' = [RaisedAnswer EXCEPT !.overlapped = searchRun.overlapped]
          /\ searchRun' = NoRun
     ELSE /\ searchRun' =
               [searchRun EXCEPT !.pc = "loop",
                                 !.query_embedding = Encode(ProcessQuery(provider, searchRun.query)),
                                 !.live = TRUE, !.next = 1, !.results = <<>>]
          /\ UNCHANGED lastSearch
  /\ UNCHANGED <<provider, hashSeed, cells, sheet_data, loadPc, loadNext, loadOutcome,
                 snapshot, addr, providerCalls, probe>>

\* lines 226-252: one iteration of the loop, over the next cell of its list
SearchCell ==
  /\ Quiet
  /\ searchRun.pc = "loop"
  /\ searchRun.next <= Len(LoopList(searchRun, cells))
  /\ \E seed \in RevealFrom(hashSeed, searchRun.query,
                              <<LoopList(searchRun, cells)[searchRun.next]>>, 1) :
       /\ hashSeed' = seed
       /\ searchRun' =
            [searchRun EXCEPT
               !.next = searchRun.next + 1,
               !.results = searchRun.results
                             \o ScoreOne(seed, provider, searchRun.query_embedding, searchRun.query,
                                         LoopList(searchRun, cells)[searchRun.next])]
  /\ UNCHANGED <<provider, cells, sheet_data, loadPc, loadNext, loadOutcome,
                 snapshot, lastSearch, addr, providerCalls, probe>>

\* the return of a search that removes the cells without an embedding from
\* self.cells instead of skipping them
SearchReturnPrunesCells(max_results) ==
  /\ Quiet
  /\ searchRun.pc = "loop"
  /\ searchRun.next > Len(LoopList(searchRun, cells))
  /\ lastSearch' =
       ReturnedAnswer(searchRun.query, max_results,
                      SlicePrefix(SortByScoreDesc(searchRun.results), max_results),
                      Len(ProcessQueryEncodes(searchRun.query)) + 1, searchRun.overlapped)
  /\ searchRun' = NoRun
  /\ cells' = SelectSeq(cells, LAMBDA cell : cell.semantic_embedding.set)
  /\ UNCHANGED <<provider, hashSeed, sheet_data, loadPc, loadNext, loadOutcome,
                 snapshot, addr, providerCalls, probe>>

\* lines 226 and 254-257: the list is exhausted; the results are sorted and
\* cut to max_results.  The search made the calls of _process_query and the
\* call of line 222
SearchReturn(max_results) ==
  /\ Quiet
  /\ searchRun.pc = "loop"
  /\ searchRun.next > Len(LoopList(searchRun, cells))
  /\ lastSearch' =
       ReturnedAnswer(searchRun.query, max_results,
                      SlicePrefix(SortByScoreDesc(searchRun.results), max_results),
                      Len(ProcessQueryEncodes(searchRun.query)) + 1, searchRun.overlapped)
  /\ searchRun' = NoRun
  /\ UNCHANGED <<provider, hashSeed, cells, sheet_data, loadPc, loadNext, loadOutcome,
                 snapshot, addr, providerCalls, probe>>

\* the caller takes the answer of its search
TakeAnswer ==
  /\ ~Quiet
  /\ lastSearch' = NoSearch
  /\ UNCHANGED <<provider, hashSeed, cells, sheet_data, loadPc, loadNext, loadOutcome,
                 snapshot, searchRun, addr, providerCalls, probe>>

\* One caller at a time, as the handlers of main.py call the engine on the
\* event loop: a load is called when no search is in progress and a search
\* when no load is in progress.  A load that raised has returned.
Next ==
  \/ \E g \in Grids : searchRun.pc = "idle" /\ LoadBegin(g)
  \/ LoadSheet
  \/ LoadStartEmbedding
  \/ \E providerRaises \in BOOLEAN : LoadEmbedCell(providerRaises)
  \/ LoadFinish
  \/ \E query \in Queries : loadPc = "idle" /\ SearchBegin(query)
  \/ \E providerRaises \in BOOLEAN : SearchEncode(providerRaises)
  \/ SearchCell
  \/ \E max_results \in MaxResultsValues : SearchReturn(max_results)
  \/ TakeAnswer

Spec == Init /\ [][Next]_vars

(***************************************************************************)
(* Two callers of one engine object, a loader and a searcher, whose steps  *)
(* interleave freely: the engine has no lock.                              *)
(***************************************************************************)
\* the workbooks the loader loads and the queries the searcher asks
RaceGrids == {GridCosts, GridBlank}
RaceQueries == {"rate"}

RECURSIVE CellsOfSheets(_, _)
\* the cells the loop of lines 53-54 has appended when it has processed the
\* first n sheets
CellsOfSheets(sheets, n) ==
  IF n = 0 THEN <<>>
  ELSE CellsOfSheets(sheets, n - 1) \o ProcessSheet(sheets[n].name, sheets[n].data)

\* lines 53-54 and 105, append by append, as a second caller sees them: the
\* loop over the sheets is at sheet loadNext, and _process_sheet has appended
\* the cells self.cells holds beyond those of the sheets before.  A sheet
\* without "data" raises at line 54.  Otherwise the next cell of the sheet is
\* appended (line 105); with the last cell of the sheet, or at once for a sheet
\* that gives no cell, the loop goes on to the next sheet
LoadAppendCell ==
  /\ Quiet
  /\ loadPc = "sheets"
  /\ loadNext <= Len(sheet_data.sheets)
  /\ LET sh == sheet_data.sheets[loadNext]
         appended == Len(cells) - Len(CellsOfSheets(sheet_data.sheets, loadNext - 1))
         sheet_cells == ProcessSheet(sh.name, sh.data)
     IN IF ~sh.hasData
        THEN /\ loadPc' = "idle"
             /\ loadOutcome' = "raised"
             /\ loadNext' = 1
             /\ UNCHANGED cells
        ELSE /\ cells' = IF appended < Len(sheet_cells)
                         THEN Append(cells, sheet_cells[appended + 1])
                         ELSE cells
             /\ loadNext' = IF appended + 1 >= Len(sheet_cells) THEN loadNext + 1 ELSE loadNext
             /\ UNCHANGED <<loadPc, loadOutcome>>
  /\ searchRun' = LoadStepUnderSearch(searchRun)
  /\ UNCHANGED <<provider, hashSeed, sheet_data, snapshot, lastSearch, addr, providerCalls, probe>>

RaceNext ==
  \/ \E g \in RaceGrids : LoadBegin(g)
  \/ LoadAppendCell
  \/ LoadStartEmbedding
  \/ \E providerRaises \in BOOLEAN : LoadEmbedCell(providerRaises)
  \/ LoadFinish
  \/ \E query \in RaceQueries : SearchBegin(query)
  \/ \E providerRaises \in BOOLEAN : SearchEncode(providerRaises)
  \/ SearchCell
  \/ \E max_results \in MaxResultsValues : SearchReturn(max_results)
  \/ TakeAnswer

RaceSpec == Init /\ [][RaceNext]_vars

(***************************************************************************)
(* The scenario of the "Total Revenue" column: the process loads the sheet *)
(* once and then searches, under every order of the tag lists of the two   *)
(* cells.  One specification for each query of the scenario.               *)
(***************************************************************************)
ScenarioNext(query) ==
  \/ loadOutcome = "none" /\ LoadBegin(GridRevenue)
  \/ LoadSheet
  \/ LoadStartEmbedding
  \/ LoadEmbedCell(FALSE)
  \/ LoadFinish
  \/ loadPc = "idle" /\ loadOutcome = "ok" /\ SearchBegin(query)
  \/ SearchEncode(FALSE)
  \/ SearchCell
  \/ SearchReturn(DefaultMaxResults)
  \/ TakeAnswer

CostScenarioNext == ScenarioNext("show cost calculations")

RevenueScenarioNext == ScenarioNext("find revenue totals")

CostScenarioSpec == Init /\ [][CostScenarioNext]_vars

RevenueScenarioSpec == Init /\ [][RevenueScenarioNext]_vars

(***************************************************************************)
(* The address formatter on its own: every column and row of the bounds.   *)
(***************************************************************************)
AddrInit ==
  /\ provider = 0
  /\ hashSeed = NoOrders
  /\ cells = <<>>
  /\ sheet_data = NoGrid
  /\ loadPc = "idle"
  /\ loadNext = 1
  /\ loadOutcome = "none"
  /\ snapshot = <<>>
  /\ lastSearch = NoSearch
  /\ searchRun = NoRun
  /\ addr = NoAddr
  /\ providerCalls = Len(ConceptEmbeddingTexts)
  /\ probe = NoProbe

\* one call of _get_excel_cell_reference; its answer is kept in addr
FormatAddress(row, col) ==
  /\ addr = NoAddr
  /\ addr' = [row |-> row, col |-> col, ref |-> GetExcelCellReference(row, col)]
  /\ UNCHANGED <<provider, hashSeed, cells, sheet_data, loadPc, loadNext, loadOutcome,
                 snapshot, lastSearch, searchRun, providerCalls, probe>>

\* the caller has used the address
TakeAddress ==
  /\ addr # NoAddr
  /\ addr' = NoAddr
  /\ UNCHANGED <<provider, hashSeed, cells, sheet_data, loadPc, loadNext, loadOutcome,
                 snapshot, lastSearch, searchRun, providerCalls, probe>>

AddrNext ==
  \/ \E row \in 0..MaxAddrRow : \E col \in 0..MaxColumn : FormatAddress(row, col)
  \/ TakeAddress

AddrSpec == AddrInit /\ [][AddrNext]_vars


(***************************************************************************)
(* The pure methods called on their own: the tagger, the two relevance     *)
(* functions and the query expander, each on inputs of a bounded set.      *)
(***************************************************************************)
\* words the probed texts are built from: catalog terms as whole words, catalog
\* terms inside longer words, pattern tokens and formulas
TagWords ==
  <<"profit", "margin", "Gross", "summary", "network", "tariff", "yoy", "mommy",
    "rate", "corporate", "50%", "a/b", "Sales", "=SUM(A1:A3)", "=B12/B5",
    "=AVG(B2)/2", "=if(A1,HLOOKUP(B1))", "sum(a1)">>

\* the probed texts: one word, or two words separated by a space
TagTexts ==
  {""} \cup {TagWords[i] : i \in 1..Len(TagWords)}
       \cup {TagWords[i] \o " " \o TagWords[j] : i, j \in 1..Len(TagWords)}

PureInit ==
  /\ provider \in 0..(NumProviders - 1)
  /\ hashSeed = NoOrders
  /\ cells = <<>>
  /\ sheet_data = NoGrid
  /\ loadPc = "idle"
  /\ loadNext = 1
  /\ loadOutcome = "none"
  /\ snapshot = <<>>
  /\ lastSearch = NoSearch
  /\ searchRun = NoRun
  /\ addr = NoAddr
  /\ providerCalls = Len(ConceptEmbeddingTexts)
  /\ probe = NoProbe

\* one call of BusinessConceptMapper.identify_concepts
ProbeIdentifyConcepts(text) ==
  /\ probe = NoProbe
  /\ probe' = [op |-> "identify_concepts", text |-> text, tags |-> IdentifyConcepts(text)]
  /\ UNCHANGED <<provider, hashSeed, cells, sheet_data, loadPc, loadNext, loadOutcome,
                 snapshot, lastSearch, searchRun, addr, providerCalls>>


\* tag lists of cells
ScoreTagLists ==
  {<<>>, <<"monetary value">>, <<"sum calculation", "aggregation formula">>,
   <<"total revenue">>, <<"gross profit margin", "profitability metric">>,
   <<"percentage calculation", "growth metric">>, <<"cost calculation">>}

\* header_context values of cells
ScoreHeaders == {"", "Rate", "Gross Profit Margin", "Total Revenue", "Costs"}

\* sheet names of cells
ScoreSheetNames == {"KPI", "Cost Summary", "Revenue"}

\* one call of _calculate_concept_relevance
ProbeConceptRelevance(query, cell_concepts) ==
  /\ probe = NoProbe
  /\ probe' = [op |-> "concept_relevance", query |-> query, cell_concepts |-> cell_concepts,
               score |-> ConceptRelevance(query, cell_concepts)]
  /\ UNCHANGED <<provider, hashSeed, cells, sheet_data, loadPc, loadNext, loadOutcome,
                 snapshot, lastSearch, searchRun, addr, providerCalls>>

\* one call of _calculate_contextual_relevance
ProbeContextualRelevance(query, header_context, sheet_name) ==
  /\ probe = NoProbe
  /\ probe' = [op |-> "contextual_relevance", query |-> query,
               header_context |-> header_context, sheet_name |-> sheet_name,
               score |-> ContextualRelevance(query, [header_context |-> header_context,
                                                     sheet_name |-> sheet_name])]
  /\ UNCHANGED <<provider, hashSeed, cells, sheet_data, loadPc, loadNext, loadOutcome,
                 snapshot, lastSearch, searchRun, addr, providerCalls>>

\* one call of _process_query
ProbeProcessQuery(query) ==
  /\ probe = NoProbe
  /\ probe' = [op |-> "process_query", query |-> query,
               expanded |-> ProcessQuery(provider, query)]
  /\ UNCHANGED <<provider, hashSeed, cells, sheet_data, loadPc, loadNext, loadOutcome,
                 snapshot, lastSearch, searchRun, addr, providerCalls>>

\* queries handed to _generate_explanation: with and without the words the
\* formula branch looks for
ExplainQueries ==
  {"", "show the formula", "average of sales", "total cost summary",
   "Gross Profit Margin KPI", "computed sum", "cost sum average", "growth rate of sales",
   "show values", "find revenue totals", "show cost calculations", "margin kpi",
   "average of sales sum cost", "gross profit margin of the cost summary",
   "gross profit margin total"}

\* the fields of a cell _generate_explanation reads
ExplainCell(sheet_name, header_context, formula, business_concepts) ==
  [sheet_name |-> sheet_name, header_context |-> header_context, formula |-> formula,
   business_concepts |-> business_concepts]

\* cells handed to _generate_explanation
ExplainCells ==
  {ExplainCell("Revenue", "", "", <<>>),
   ExplainCell("Revenue", "Total Revenue", "=SUM(B2:B4)", <<"sum calculation", "total revenue">>),
   ExplainCell("KPI", "Gross Profit Margin", "=B12/B5",
               <<"gross profit margin", "profitability metric">>),
   ExplainCell("Cost Summary", "Sales", "=AVERAGE(A1:A3)", <<"monetary value">>),
   ExplainCell("Cost Summary", "Sum of Sales", "=SUM(A1)/AVERAGE(B1:B3)",
               <<"average calculation", "sum calculation">>),
   ExplainCell("Cost Rate", "Growth Rate", "", <<"growth metric">>),
   ExplainCell("Cost Rate", "Rate", "=sum(a1)/b2", <<>>),
   ExplainCell("Cost Summary", "Gross Profit Margin", "", <<"gross profit margin">>),
   ExplainCell("KPI", "Total Gross Profit Margin", "", <<>>)}

\* one call of _generate_explanation, which reads the order of the words the
\* header and the sheet name share with the query; each probe stands for a
\* call in a process of its own, so the orders it reads are not kept
ProbeGenerateExplanation(query, cell) ==
  /\ probe = NoProbe
  /\ \E seed \in UNION {RevealWords(s, cell.sheet_name, query) :
                         s \in RevealWords(hashSeed, cell.header_context, query)} :
       probe' = [op |-> "generate_explanation", query |-> query, cell |-> cell,
                 explanation |-> GenerateExplanation(seed, query, cell)]
  /\ UNCHANGED <<provider, hashSeed, cells, sheet_data, loadPc, loadNext, loadOutcome,
                 snapshot, lastSearch, searchRun, addr, providerCalls>>

\* the caller has used the answer
TakeProbe ==
  /\ probe # NoProbe
  /\ probe' = NoProbe
  /\ UNCHANGED <<provider, hashSeed, cells, sheet_data, loadPc, loadNext, loadOutcome,
                 snapshot, lastSearch, searchRun, addr, providerCalls>>

PureNext ==
  \/ \E text \in TagTexts : ProbeIdentifyConcepts(text)
  \/ \E query \in ScoreQueries : \E cell_concepts \in ScoreTagLists :
       ProbeConceptRelevance(query, cell_concepts)
  \/ \E query \in ScoreQueries : \E header_context \in ScoreHeaders :
       \E sheet_name \in ScoreSheetNames :
         ProbeContextualRelevance(query, header_context, sheet_name)
  \/ \E query \in ScoreQueries : ProbeProcessQuery(query)
  \/ \E query \in ExplainQueries : \E cell \in ExplainCells :
       ProbeGenerateExplanation(query, cell)
  \/ TakeProbe

PureSpec == PureInit /\ [][PureNext]_vars

(***************************************************************************)
(* The indexer on its own: loads of one-sheet grids holding one header and *)
(* one value, up to the end of the loop over the sheets.                   *)
(***************************************************************************)
IndexHeaders ==
  {"Gross Profit Margin", "Net Margins", "Revenue less Cost", "Sales", "Expense",
   "Growth Rate", "Item", " "}

IndexValues ==
  {StrV("=B12/B5"), StrV("=SUM(B2:B4)"), StrV("=sum(a1)/b2"), StrV("5%"), StrV("up 12.5%"),
   StrV("Q1"), IntV(1500)}

IndexSheetNames == {"KPI", "Cost Summary"}

\* the header in A1 and the value below it
GridColumn(sheet_name, header, value) ==
  [hasSheets |-> TRUE,
   sheets |-> <<Sheet(sheet_name, << <<StrV(header)>>, <<value>> >>)>>]

\* the header in B1 and the value in B3, after an empty row
GridOffset(sheet_name, header, value) ==
  [hasSheets |-> TRUE,
   sheets |-> <<Sheet(sheet_name, << <<NoneV, StrV(header)>>, <<>>, <<NoneV, value>> >>)>>]

IndexGrids ==
  {GridColumn(n, h, v) : n \in IndexSheetNames, h \in IndexHeaders, v \in IndexValues}
  \cup {GridOffset(n, h, v) : n \in IndexSheetNames, h \in IndexHeaders, v \in IndexValues}

IndexNext ==
  \/ \E g \in IndexGrids : LoadBegin(g)
  \/ LoadSheet

IndexSpec == Init /\ [][IndexNext]_vars

(***************************************************************************)
(* One query searched by two engines that hold the same cells and differ   *)
(* in the provider model only, so in the similarities and in the concept   *)
(* names _process_query appends.                                           *)
(***************************************************************************)
\* workbooks the two engines index
PairGrids == {GridRates, GridCosts, GridBroken}

\* the queries both engines are asked
PairQueries == ScoreQueries \cup Queries

\* a search of the pair before line 219
NoPairRun ==
  [processed_query |-> "", query_embedding |-> NoEmbedding, similarity |-> <<>>,
   results |-> <<>>]

\* lines 219-222 under provider model p
PairEncode(p, run, query) ==
  [run EXCEPT !.processed_query = ProcessQuery(p, query),
              !.query_embedding = Encode(ProcessQuery(p, query))]

\* lines 227-252 under provider model p for one cell, with the similarity of
\* line 231, 0.0 standing for a cell without an embedding
PairCell(seed, p, run, query, cell) ==
  [run EXCEPT !.similarity = Append(@, IF cell.semantic_embedding.set
                                       THEN Cosine(p, run.query_embedding, cell.semantic_embedding)
                                       ELSE FZero),
              !.results = @ \o ScoreOne(seed, p, run.query_embedding, query, cell)]

\* lines 254-257 of a search of the pair: the sort and the slice
PairSorted(run, max_results) ==
  [run EXCEPT !.results = SlicePrefix(SortByScoreDesc(@), max_results)]

\* the same query is searched under the engine's provider model and under
\* another, lines 215-216: an empty cell list is answered at once
ProbeSearchPairBegin(query, max_results, other) ==
  /\ probe = NoProbe
  /\ loadPc = "idle"
  /\ other # provider
  /\ probe' = IF cells = <<>>
              THEN [op |-> "search_pair", query |-> query, max_results |-> max_results,
                    other |-> other, locations |-> <<>>,
                    first |-> NoPairRun, second |-> NoPairRun]
              ELSE [op |-> "search_pair_run", pc |-> "encode", query |-> query,
                    max_results |-> max_results, other |-> other, next |-> 1, locations |-> <<>>, first |-> NoPairRun, second |-> NoPairRun]
  /\ UNCHANGED <<provider, hashSeed, cells, sheet_data, loadPc, loadNext, loadOutcome,
                 snapshot, lastSearch, searchRun, addr, providerCalls>>

\* lines 219-226 of the two searches; the loops take the list self.cells names
ProbeSearchPairEncode ==
  /\ probe.op = "search_pair_run"
  /\ probe.pc = "encode"
  /\ probe' = [probe EXCEPT !.pc = "loop",
                            !.locations = [i \in 1..Len(cells) |-> Location(cells[i])],
                            !.first = PairEncode(provider, @, probe.query),
                            !.second = PairEncode(probe.other, @, probe.query)]
  /\ UNCHANGED <<provider, hashSeed, cells, sheet_data, loadPc, loadNext, loadOutcome,
                 snapshot, lastSearch, searchRun, addr, providerCalls>>

\* lines 226-252 of the two searches: one iteration of the loops
ProbeSearchPairCell ==
  /\ probe.op = "search_pair_run"
  /\ probe.pc = "loop"
  /\ probe.next <= Len(cells)
  /\ \E seed \in RevealFrom(hashSeed, probe.query, <<cells[probe.next]>>, 1) :
       /\ hashSeed' = seed
       /\ probe' = [probe EXCEPT
                      !.next = @ + 1,
                      !.first = PairCell(seed, provider, @, probe.query, cells[probe.next]),
                      !.second = PairCell(seed, probe.other, @, probe.query, cells[probe.next])]
  /\ UNCHANGED <<provider, cells, sheet_data, loadPc, loadNext, loadOutcome,
                 snapshot, lastSearch, searchRun, addr, providerCalls>>

\* lines 226 and 254-257 of the two searches: the lists are exhausted, the
\* results are sorted and cut to max_results
ProbeSearchPairReturn ==
  /\ probe.op = "search_pair_run"
  /\ probe.pc = "loop"
  /\ probe.next > Len(cells)
  /\ probe' = [op |-> "search_pair", query |-> probe.query,
               max_results |-> probe.max_results, other |-> probe.other,
               locations |-> probe.locations,
               first |-> PairSorted(probe.first, probe.max_results),
               second |-> PairSorted(probe.second, probe.max_results)]
  /\ UNCHANGED <<provider, hashSeed, cells, sheet_data, loadPc, loadNext, loadOutcome,
                 snapshot, lastSearch, searchRun, addr, providerCalls>>

\* the caller has used the answer of the pair
TakeSearchPair ==
  /\ probe.op = "search_pair"
  /\ probe' = NoProbe
  /\ UNCHANGED <<provider, hashSeed, cells, sheet_data, loadPc, loadNext, loadOutcome,
                 snapshot, lastSearch, searchRun, addr, providerCalls>>

\* One caller at a time: a load is called when no search of the pair is in
\* progress, and the pair is searched when no load is in progress
PairNext ==
  \/ \E g \in PairGrids : probe = NoProbe /\ LoadBegin(g)
  \/ LoadSheet
  \/ LoadStartEmbedding
  \/ LoadEmbedCell(FALSE)
  \/ LoadFinish
  \/ \E query \in PairQueries : \E max_results \in MaxResultsValues :
       \E other \in 0..NumProviders : ProbeSearchPairBegin(query, max_results, other)
  \/ ProbeSearchPairEncode
  \/ ProbeSearchPairCell
  \/ ProbeSearchPairReturn
  \/ TakeSearchPair

PairSpec == Init /\ [][PairNext]_vars

(***************************************************************************)
(* The /search handler of main.py over the engine. The handlers run on the *)
(* event loop one at a time, so a request is handled between two loads.    *)
(***************************************************************************)
\* the detail of the 400 of line 640
NoDataDetail == "No spreadsheet data loaded. Please load a file or sample data first."

\* str() of an HTTPException: the status code, a colon and the detail
HttpExceptionStr(status_code, detail) == IntToStr(status_code) \o ": " \o detail

\* the response FastAPI builds from an HTTPException that leaves the handler
ErrorResponse(status_code, detail, engine_called) ==
  [op |-> "search_spreadsheets", status_code |-> status_code, detail |-> detail,
   engine_called |-> engine_called, results |-> <<>>, total_results |-> 0]

\* lines 644-649: the SearchResponse the handler returns
SearchResponse(results) ==
  [op |-> "search_spreadsheets", status_code |-> 200, detail |-> "",
   engine_called |-> TRUE, results |-> results, total_results |-> Len(results)]

\* lines 635-651: search_spreadsheets. The HTTPException of line 640 is raised
\* inside the try block, and HTTPException is an Exception, so the clause of
\* line 650 catches it and raises the 500 of line 651 in its place
SearchSpreadsheets(query, max_results, providerRaises) ==
  /\ probe = NoProbe
  /\ loadPc = "idle"
  /\ IF ~HasData(cells)
     THEN /\ probe' = ErrorResponse(500, "Search error: " \o HttpExceptionStr(400, NoDataDetail),
                                    FALSE)
          /\ UNCHANGED hashSeed
     ELSE IF providerRaises
          THEN /\ probe' = ErrorResponse(500, "Search error: provider", TRUE)
               /\ UNCHANGED hashSeed
          ELSE \E seed \in RevealFrom(hashSeed, query, cells, 1) :
                 /\ hashSeed' = seed
                 /\ probe' = SearchResponse(SearchResults(seed, provider, query, max_results,
                                                          cells))
  /\ UNCHANGED <<provider, cells, sheet_data, loadPc, loadNext, loadOutcome,
                 snapshot, lastSearch, searchRun, addr, providerCalls>>

\* SpreadsheetLoader.validate_spreadsheet_data: the "sheets" key is present
\* and every sheet has a "data" key
ValidateSpreadsheetData(g) ==
  g.hasSheets /\ \A i \in 1..Len(g.sheets) : g.sheets[i].hasData

\* the detail of the 400 of line 550
InvalidDataDetail == "Invalid spreadsheet data format"

\* lines 548-553 of load_file: a workbook that fails the validation is
\* answered with the 400 of line 550 and the engine is not touched; a valid
\* one is handed to load_spreadsheet_data
LoadFile(g) ==
  /\ probe = NoProbe
  /\ IF ValidateSpreadsheetData(g)
     THEN LoadBegin(g)
     ELSE /\ Quiet
          /\ loadPc = "idle"
          /\ probe' = [op |-> "load_file", status_code |-> 400, detail |-> InvalidDataDetail,
                       engine_called |-> FALSE, results |-> <<>>, total_results |-> 0]
          /\ UNCHANGED <<provider, hashSeed, cells, sheet_data, loadPc, loadNext, loadOutcome,
                         snapshot, lastSearch, searchRun, addr, providerCalls>>

\* the workbooks uploaded to the server, well-formed or not
ApiGrids == {GridCosts, GridBlank, GridBroken, GridNoSheets}

ApiNext ==
  \/ \E g \in ApiGrids : LoadFile(g)
  \/ LoadSheet
  \/ LoadStartEmbedding
  \/ \E providerRaises \in BOOLEAN : LoadEmbedCell(providerRaises)
  \/ LoadFinish
  \/ \E query \in Queries : \E max_results \in MaxResultsValues :
       \E providerRaises \in BOOLEAN : SearchSpreadsheets(query, max_results, providerRaises)
  \/ TakeProbe

ApiSpec == Init /\ [][ApiNext]_vars
(***************************************************************************)
(* What a completed load of a grid amounts to, for stating the properties. *)
(***************************************************************************)
\* every key the load reads is present
WellFormed(g) == g.hasSheets /\ \A i \in 1..Len(g.sheets) : g.sheets[i].hasData

RECURSIVE IndexFrom(_, _)
IndexFrom(g, i) ==
  IF i > Len(g.sheets) THEN <<>>
  ELSE ProcessSheet(g.sheets[i].name, g.sheets[i].data) \o IndexFrom(g, i + 1)

\* the cells of a grid, sheet by sheet
IndexGrid(g) == IndexFrom(g, 1)

\* every cell with the embedding of its rich text
EmbedAll(seed, cs) ==
  [i \in 1..Len(cs) |->
     [cs[i] EXCEPT !.semantic_embedding = Encode(RichText(ReadCell(seed, cs[i])))]]

\* the cell list a completed load of a well-formed grid leaves under a hash
\* seed that fixes the order of the tags of its cells
LoadedIndex(seed, g) == EmbedAll(seed, IndexGrid(g))

RECURSIVE RevealTagsFrom(_, _, _)
\* the hash seeds that agree with seed and fix the order of the tags of every
\* cell of a list from index i on
RevealTagsFrom(seed, cs, i) ==
  IF i > Len(cs) THEN {seed}
  ELSE UNION {RevealTagsFrom(s, cs, i + 1) : s \in RevealTags(seed, cs[i])}

\* the result lists a search can answer over a cell list, under the hash
\* seeds that agree with what the process has read
AnswersOver(query, max_results, cs) ==
  {SearchResults(seed, provider, query, max_results, cs) :
     seed \in RevealFrom(hashSeed, query, cs, 1)}

\* the result lists a search can answer over the complete index of a grid
AnswersOverGrid(query, max_results, g) ==
  UNION {{SearchResults(s2, provider, query, max_results, LoadedIndex(s1, g)) :
            s2 \in RevealFrom(s1, query, LoadedIndex(s1, g), 1)} :
           s1 \in RevealTagsFrom(hashSeed, IndexGrid(g), 1)}

\* the tags of a cell as a list in the order of the catalog, for the scores,
\* which do not depend on the order of the list
TagList(cell) == RankOrdered(cell.business_concepts)

\* a load has completed and no other has started since
LoadedOk == loadPc = "idle" /\ loadOutcome = "ok"

\* a search has answered with a result list
Answered == lastSearch.status = "returned"

\* index in self.cells of the cell a result was built from
CellIndexOf(result) == CHOOSE n \in 1..Len(cells) : Location(cells[n]) = result.location

(***************************************************************************)
(* C1.  A search that ran while a load was in progress answers from the    *)
(* complete cell set and embeddings of before the load, or from the        *)
(* complete cell set and embeddings of the grid of the load, never from    *)
(* anything else.                                                          *)
(***************************************************************************)
C1_MidLoadSearchSeesOldOrNew ==
  (Answered /\ lastSearch.overlapped) =>
    \/ lastSearch.results \in AnswersOver(lastSearch.query, lastSearch.max_results, snapshot)
    \/ /\ WellFormed(sheet_data)
       /\ lastSearch.results
            \in AnswersOverGrid(lastSearch.query, lastSearch.max_results, sheet_data)

(***************************************************************************)
(* C2.  After a load that raised, self.cells is what it was when the load  *)
(* was called.                                                             *)
(***************************************************************************)
C2_FailedLoadKeepsCells ==
  (loadPc = "idle" /\ loadOutcome = "raised") => cells = snapshot

(***************************************************************************)
(* C3.  After a load that completed, self.cells is exactly the index of    *)
(* the grid of that load, and every result of a search refers to a         *)
(* (sheet, row, col) of that grid.                                         *)
(***************************************************************************)
C3_CellsAreLastGrid ==
  LoadedOk =>
    /\ WellFormed(sheet_data)
    /\ cells = LoadedIndex(hashSeed, sheet_data)
    /\ Answered =>
         \A i \in 1..Len(lastSearch.results) :
           \E n \in 1..Len(IndexGrid(sheet_data)) :
             lastSearch.results[i].location = Location(IndexGrid(sheet_data)[n])

\* a second grid has been loaded over a first one and a search has found cells
C3_Witness ==
  /\ LoadedOk
  /\ snapshot # <<>>
  /\ cells # <<>>
  /\ snapshot[1].sheet_name # cells[1].sheet_name
  /\ Answered
  /\ lastSearch.results # <<>>

(***************************************************************************)
(* C4.  A search over no cells (nothing loaded, or a grid without a        *)
(* non-blank cell) answers the empty list and does not raise, whatever the *)
(* query and max_results.                                                  *)
(***************************************************************************)
C4_EmptyIndexAnswersEmpty ==
  (lastSearch.status # "none" /\ cells = <<>>) =>
    (lastSearch.status = "returned" /\ lastSearch.results = <<>>)

\* the grid of blanks is loaded and a search has been answered
C4_Witness ==
  /\ LoadedOk
  /\ sheet_data = GridBlank
  /\ cells = <<>>
  /\ Answered
  /\ lastSearch.max_results > 0
  /\ lastSearch.query # ""

(***************************************************************************)
(* C5.  No result has a score at or below the floor of 0.10, and after a   *)
(* completed load the cells of the unbounded result list are exactly the   *)
(* cells that score strictly above the floor.                              *)
(***************************************************************************)
\* the score of cell n for the query of the last search
ScoreOfCell(n) ==
  FinalScore(Cosine(provider, Encode(ProcessQuery(provider, lastSearch.query)),
                    cells[n].semantic_embedding),
             ConceptRelevance(lastSearch.query, TagList(cells[n])),
             ContextualRelevance(lastSearch.query, cells[n]))

C5_FloorInvariant ==
  Answered =>
    /\ \A i \in 1..Len(lastSearch.results) : FGt(lastSearch.results[i].relevance_score, Floor)
    /\ (LoadedOk /\ lastSearch.max_results >= Len(cells)) =>
         {lastSearch.results[i].location : i \in 1..Len(lastSearch.results)}
           = {Location(cells[n]) : n \in {m \in 1..Len(cells) : FGt(ScoreOfCell(m), Floor)}}

\* a search left out a cell whose score is the float 0.1 and returned another
C5_Witness ==
  /\ LoadedOk
  /\ Answered
  /\ lastSearch.max_results >= Len(cells)
  /\ lastSearch.results # <<>>
  /\ \E n \in 1..Len(cells) : FCmp(ScoreOfCell(n), Floor) = 0

(***************************************************************************)
(* C6.  In every result list the score never increases from one entry to   *)
(* the next, and results of equal score keep the order in which the        *)
(* indexer emitted their cells.                                            *)
(***************************************************************************)
C6_OrderingInvariant ==
  Answered =>
    \A i \in 1..Len(lastSearch.results) : \A j \in 1..Len(lastSearch.results) :
      i < j =>
        /\ FGe(lastSearch.results[i].relevance_score, lastSearch.results[j].relevance_score)
        /\ FCmp(lastSearch.results[i].relevance_score, lastSearch.results[j].relevance_score) = 0
             => CellIndexOf(lastSearch.results[i]) < CellIndexOf(lastSearch.results[j])

\* a result list with two entries of equal score and an entry that scores more
C6_Witness ==
  /\ Answered
  /\ \E i \in 1..Len(lastSearch.results) : \E j \in 1..Len(lastSearch.results) :
       \E k \in 1..Len(lastSearch.results) :
         /\ i < j
         /\ FCmp(lastSearch.results[i].relevance_score, lastSearch.results[j].relevance_score) = 0
         /\ FCmp(lastSearch.results[k].relevance_score, lastSearch.results[i].relevance_score) # 0

(***************************************************************************)
(* C7.  For every integer max_results, search answers a prefix of the full *)
(* ranked list with at most max(max_results, 0) entries, and exactly       *)
(* min(max_results, n) entries when max_results >= 0 and n cells are above *)
(* the floor.  Stated for searches against a completely loaded index.      *)
(***************************************************************************)
\* the cells in self.cells that search scores strictly above the floor
AboveFloor == {n \in 1..Len(cells) : cells[n].semantic_embedding.set /\ FGt(ScoreOfCell(n), Floor)}

C7_AtMostMaxResults ==
  (Answered /\ LoadedOk) =>
    /\ Len(lastSearch.results) <= (IF lastSearch.max_results > 0 THEN lastSearch.max_results ELSE 0)
    /\ lastSearch.max_results >= 0 =>
         Len(lastSearch.results) = Min2(lastSearch.max_results, Cardinality(AboveFloor))

(***************************************************************************)
(* C8.  The score of every result is 0.4 * semantic + 0.4 * concept +      *)
(* 0.2 * context of its cell within 1e-9, concept and context taken        *)
(* against the raw query and semantic against the embedding of the         *)
(* expanded query.                                                         *)
(***************************************************************************)
\* the least exponent of the floats of terms that are not zero, 0 if all are
LeastExponent(terms) ==
  LET es == {terms[i][1].e : i \in {j \in 1..Len(terms) : terms[j][1].m # <<>>}}
  IN IF es = {} THEN 0 ELSE CHOOSE e \in es : \A x \in es : e <= x

RECURSIVE SignedSum(_, _, _, _)
\* in units of 2^e, the sum of |k * f| over the terms <<f, k>> from the i-th on
\* whose product k * f is negative (neg) or positive (not neg)
SignedSum(terms, e, neg, i) ==
  IF i > Len(terms) THEN <<>>
  ELSE LET f == terms[i][1]
           k == terms[i][2]
           rest == SignedSum(terms, e, neg, i + 1)
       IN IF f.m = <<>> \/ k = 0 \/ ((f.neg # (k < 0)) # neg) THEN rest
          ELSE BAdd(BMulSmall(BShl(f.m, f.e - e), IF k < 0 THEN 0 - k ELSE k), rest)

\* the exact value of the sum of k * f over the terms <<f, k>> is at most
\* 1e-8 in absolute value
NearZero(terms) ==
  LET e == LeastExponent(terms)
      pos == BTrim(SignedSum(terms, e, FALSE, 1))
      neg == BTrim(SignedSum(terms, e, TRUE, 1))
      diff == IF BCmp(pos, neg) >= 0 THEN BSub(pos, neg) ELSE BSub(neg, pos)
  IN BCmp(BMulSmall(BMulSmall(diff, 10000), 10000), BShl(<<1>>, 0 - e)) <= 0

C8_WeightInvariant ==
  Answered =>
    \A i \in 1..Len(lastSearch.results) :
      LET cell == cells[CellIndexOf(lastSearch.results[i])]
          semantic == Cosine(provider, Encode(ProcessQuery(provider, lastSearch.query)),
                             cell.semantic_embedding)
          concept == ConceptRelevance(lastSearch.query, TagList(cell))
          context == ContextualRelevance(lastSearch.query, cell)
      IN NearZero(<< <<lastSearch.results[i].relevance_score, 10>>, <<semantic, 0 - 4>>,
                     <<concept, 0 - 4>>, <<context, 0 - 2>> >>)

\* a result whose three sub-scores are all positive and pairwise different
C8_Witness ==
  /\ Answered
  /\ \E i \in 1..Len(lastSearch.results) :
       LET cell == cells[CellIndexOf(lastSearch.results[i])]
           semantic == Cosine(provider, Encode(ProcessQuery(provider, lastSearch.query)),
                              cell.semantic_embedding)
           concept == ConceptRelevance(lastSearch.query, TagList(cell))
           context == ContextualRelevance(lastSearch.query, cell)
       IN /\ FGt(semantic, FZero) /\ FGt(concept, FZero) /\ FGt(context, FZero)
          /\ FCmp(semantic, concept) # 0 /\ FCmp(concept, context) # 0 /\ FCmp(semantic, context) # 0

(***************************************************************************)
(* C9.  The address of (row, col) is the bijective base-26 letters of col  *)
(* followed by row + 1: the letters are A..Z only, decoding them gives     *)
(* back col, and (0,0) is A1, (0,25) Z1, (0,26) AA1, (4,27) AB5.           *)
(***************************************************************************)
RECURSIVE LeadingLetters(_)
\* the letters an address starts with
LeadingLetters(ref) ==
  IF ref # "" /\ Head(ref) \in UpperSet THEN Head(ref) \o LeadingLetters(Tail(ref)) ELSE ""

RECURSIVE DecodeLetters(_, _)
\* the 1-based column number a letter string denotes in bijective base 26
DecodeLetters(letters, acc) ==
  IF letters = "" THEN acc
  ELSE DecodeLetters(Tail(letters), 26 * acc + IndexIn(UpperChars, Head(letters)))

C9_AddressRoundTrip ==
  addr.ref # "" =>
    LET letters == LeadingLetters(addr.ref) IN
      /\ letters # ""
      /\ addr.ref = letters \o IntToStr(addr.row + 1)
      /\ DecodeLetters(letters, 0) - 1 = addr.col
      /\ (addr.row = 0 /\ addr.col = 0) => addr.ref = "A1"
      /\ (addr.row = 0 /\ addr.col = 25) => addr.ref = "Z1"
      /\ (addr.row = 0 /\ addr.col = 26) => addr.ref = "AA1"
      /\ (addr.row = 4 /\ addr.col = 27) => addr.ref = "AB5"
      /\ addr.col = 701 => letters = "ZZ"
      /\ addr.col = 702 => letters = "AAA"

\* the address of row 4, column 27 has been formatted
C9_Witness == addr.row = 4 /\ addr.col = 27 /\ addr.ref = "AB5"

(***************************************************************************)
(* C10.  Once every sheet of a grid is processed, self.cells holds exactly *)
(* one cell per grid position whose scalar is not blank (not None, not an  *)
(* empty or whitespace-only string) and none for a blank position.         *)
(***************************************************************************)
\* not None and not a string of whitespace only
NonBlankScalar(value) ==
  /\ value.t # "none"
  /\ value.t = "str" => \E i \in 1..Len(value.s) : Ch(value.s, i) \notin SpaceSet

\* the (sheet, row, col) of the grid that hold a non-blank scalar
NonBlankPositions(g) ==
  UNION {UNION {{<<g.sheets[s].name, r - 1, c - 1>> :
                   c \in {k \in 1..Len(g.sheets[s].data[r]) : NonBlankScalar(g.sheets[s].data[r][k])}}
                : r \in 1..Len(g.sheets[s].data)}
         : s \in 1..Len(g.sheets)}

\* every sheet of the grid has been processed
SheetsProcessed == loadPc = "embed" \/ LoadedOk

C10_OneCellPerNonBlank ==
  SheetsProcessed =>
    /\ Len(cells) = Cardinality(NonBlankPositions(sheet_data))
    /\ {<<cells[n].sheet_name, cells[n].row, cells[n].col>> : n \in 1..Len(cells)}
         = NonBlankPositions(sheet_data)
    /\ \A n \in 1..Len(cells) :
         cells[n].value = sheet_data.sheets[CHOOSE s \in 1..Len(sheet_data.sheets) :
                            sheet_data.sheets[s].name = cells[n].sheet_name].data[cells[n].row + 1][cells[n].col + 1]

\* the ragged grid with an empty sheet, a 0 and a False is indexed
C10_Witness ==
  /\ SheetsProcessed
  /\ sheet_data = GridCosts
  /\ Len(cells) = 4


(***************************************************************************)
(* C11.  identify_concepts tags a text with a catalog concept iff some     *)
(* term of the concept (name, synonyms, keywords) has every one of its     *)
(* words in the lower-cased text as a whole word; a word found only inside *)
(* a longer word does not count.  Stated for the concepts whose name no    *)
(* pattern or formula rule gives the text.                                 *)
(***************************************************************************)
\* a call of identify_concepts has answered
TagProbed == probe.op = "identify_concepts"

\* some term of the concept has all its words in the text as whole words
MatchesWholeWords(text, concept) ==
  \E k \in 1..Len(TermWords[concept.name]) :
    \A w \in 1..Len(TermWords[concept.name][k]) :
      HasWholeWord(text, TermWords[concept.name][k][w])

\* the tags the pattern and formula rules give a text
RuleTags(text) == IdentifyPatterns(Lower(text)) \cup IdentifyFormulaConcepts(text)

C11_WholeWordMatching ==
  TagProbed =>
    \A i \in 1..Len(Concepts) :
      Concepts[i].name \notin RuleTags(probe.text) =>
        (Concepts[i].name \in probe.tags <=> MatchesWholeWords(Lower(probe.text), Concepts[i]))

(***************************************************************************)
(* C12.  identify_concepts returns exactly the union of (a) the catalog    *)
(* concepts a term of which has all its words in the lower-cased text,     *)
(* (b) the tags of the four pattern rules and (c) for a text beginning     *)
(* with "=", the tags of the formula rules; no other tag, and the empty    *)
(* set when no rule fires.                                                 *)
(***************************************************************************)
\* (a): the names of the concepts matched by their terms
TermTags(lower) ==
  {Concepts[i].name : i \in {k \in 1..Len(Concepts) :
     \E term \in Range(AllTerms(Concepts[k])) :
       \A word \in Range(Split(Lower(term))) : Contains(lower, word)}}

\* (b): the tags of the four pattern rules
PatternTags(lower) ==
  {tag \in {"ratio calculation", "percentage calculation", "growth metric",
            "profitability metric"} :
     \/ tag = "ratio calculation" /\ Contains(lower, "/")
     \/ tag = "percentage calculation"
          /\ (Contains(lower, "%") \/ \E w \in {"percent", "ratio", "rate"} : HasWholeWord(lower, w))
     \/ tag = "growth metric"
          /\ \E w \in {"yoy", "qoq", "mom", "growth", "increase"} : HasWholeWord(lower, w)
     \/ tag = "profitability metric" /\ HasWholeWord(lower, "margin")}

\* (c): the tags of the four formula rules on function names
FunctionTags(lower) ==
  {tag \in {"sum calculation", "aggregation formula", "average calculation",
            "conditional calculation", "lookup formula"} :
     \/ tag \in {"sum calculation", "aggregation formula"} /\ Contains(lower, "sum(")
     \/ tag = "average calculation" /\ AnyIn({"average(", "avg("}, lower)
     \/ tag = "conditional calculation" /\ AnyIn({"if(", "sumif(", "countif(", "averageif("}, lower)
     \/ tag = "lookup formula"
          /\ AnyIn({"vlookup(", "hlookup(", "index(", "match(", "xlookup("}, lower)}

\* the fifth formula rule: a division with neither sum( nor average(
DivisionTags(text, lower) ==
  IF Contains(text, "/") /\ ~Contains(lower, "sum(") /\ ~Contains(lower, "average(")
  THEN {"ratio calculation", "percentage calculation"} ELSE {}

\* C12 as stated: the formula rules are the four rules on function names
C12_TagUnionFourFormulaRules ==
  TagProbed =>
    LET lower == Lower(probe.text) IN
      probe.tags = TermTags(lower) \cup PatternTags(lower)
                   \cup (IF Head(probe.text \o " ") = "=" THEN FunctionTags(lower) ELSE {})

(* C12, amended: the formula rules are five, the four on function names    *)
(* and the division rule.                                                  *)
C12_TagUnion ==
  TagProbed =>
    LET lower == Lower(probe.text) IN
      probe.tags = TermTags(lower) \cup PatternTags(lower)
                   \cup (IF Head(probe.text \o " ") = "="
                         THEN FunctionTags(lower) \cup DivisionTags(probe.text, lower)
                         ELSE {})

\* the tagger has answered for a division formula that names no function
C12_Witness ==
  /\ TagProbed
  /\ probe.text = "=B12/B5"
  /\ probe.tags = {"ratio calculation", "percentage calculation"}

(***************************************************************************)
(* C13.  Every indexed cell whose value is a string containing "%" carries *)
(* the tag percentage value, and also percentage calculation when its      *)
(* header contains margin, growth or rate.                                 *)
(***************************************************************************)
\* the tags of a cell
TagsOf(cell) == cell.business_concepts

C13_PercentStringTagged ==
  \A n \in 1..Len(cells) :
    (IsStr(cells[n].value) /\ Contains(cells[n].value.s, "%")) =>
      /\ "percentage value" \in TagsOf(cells[n])
      /\ AnyIn({"margin", "growth", "rate"}, Lower(cells[n].header_context)) =>
           "percentage calculation" \in TagsOf(cells[n])

(***************************************************************************)
(* C14.  Every indexed formula cell whose formula contains sum( carries    *)
(* revenue calculation when its header contains revenue, sales or income,  *)
(* and cost calculation when its header contains cost or expense, also     *)
(* when the header contains terms of both groups.                          *)
(***************************************************************************)
C14_SumHeaderTags ==
  \A n \in 1..Len(cells) :
    (cells[n].formula # "" /\ Contains(Lower(cells[n].formula), "sum(")) =>
      /\ AnyIn({"revenue", "sales", "income"}, Lower(cells[n].header_context)) =>
           "revenue calculation" \in TagsOf(cells[n])
      /\ AnyIn({"cost", "expense"}, Lower(cells[n].header_context)) =>
           "cost calculation" \in TagsOf(cells[n])

(***************************************************************************)
(* C15.  Every indexed cell whose formula contains "/" and whose header    *)
(* contains margin carries both ratio calculation and profitability        *)
(* metric, whatever its sheet and position.                                *)
(***************************************************************************)
C15_MarginDivisionTags ==
  \A n \in 1..Len(cells) :
    (Contains(cells[n].formula, "/") /\ Contains(Lower(cells[n].header_context), "margin")) =>
      {"ratio calculation", "profitability metric"} \subseteq TagsOf(cells[n])

\* the cell of the scenario has been indexed at B3
C15_Witness ==
  /\ \E n \in 1..Len(cells) :
       /\ cells[n].header_context = "Gross Profit Margin" /\ cells[n].formula = "=B12/B5"
       /\ cells[n].row = 2 /\ cells[n].col = 1
       /\ {"ratio calculation", "profitability metric"} \subseteq TagsOf(cells[n])

(***************************************************************************)
(* C16.  conceptScore is 0 for a cell without tags; otherwise the maximum  *)
(* of the rules that fire: 1.0 if a tag is a substring of the lower-cased  *)
(* query, 0.7 if a word of a tag is a whole word of the query, 0.8 if the  *)
(* tags the tagger gives the query meet the cell's tags; 0 if none fires.  *)
(* A tag word found only inside a longer query word earns nothing.         *)
(***************************************************************************)
\* the words of a lower-cased query
QueryWords(query) == Range(Split(Lower(query)))

C16_ConceptScoreRules ==
  probe.op = "concept_relevance" =>
    LET tags == Range(probe.cell_concepts)
        verbatim == \E tag \in tags : Contains(Lower(probe.query), Lower(tag))
        wholeWord == \E tag \in tags : Range(Split(Lower(tag))) \cap QueryWords(probe.query) # {}
        tagger == tags \cap IdentifyConcepts(Lower(probe.query)) # {}
    IN FCmp(probe.score, IF tags = {} THEN FZero
                         ELSE IF verbatim THEN Float(1, 1)
                         ELSE IF tagger THEN Float(8, 10)
                         ELSE IF wholeWord THEN Float(7, 10)
                         ELSE FZero) = 0

(***************************************************************************)
(* C17.  contextScore is, within 1e-9, 0.3 * (words common to header and   *)
(* query / query words) when the header is not empty, plus 0.2 * (words    *)
(* common to sheet name and query / query words), capped at 1.0; words are *)
(* lower-cased and split at whitespace, a common word counts once and the  *)
(* query words are counted as the query holds them, repeated words         *)
(* included.                                                               *)
(***************************************************************************)
C17_ContextScoreFormula ==
  probe.op = "contextual_relevance" =>
    LET n == Len(Split(Lower(probe.query)))
        inHeader == IF probe.header_context = "" THEN 0
                    ELSE Cardinality(Range(Split(Lower(probe.header_context)))
                                     \cap QueryWords(probe.query))
        inSheet == Cardinality(Range(Split(Lower(probe.sheet_name))) \cap QueryWords(probe.query))
    IN /\ FLe(probe.score, Float(1, 1))
       /\ n = 0 => FCmp(probe.score, FZero) = 0
       /\ n > 0 => NearZero(<< <<probe.score, 10 * n>>,
                               <<Float(3 * inHeader + 2 * inSheet, 1), 0 - 1>> >>)

\* a query with a repeated word has been scored against a header and a sheet
\* name that both share words with it
C17_Witness ==
  /\ probe.op = "contextual_relevance"
  /\ probe.query = "margin margin kpi"
  /\ probe.header_context = "Gross Profit Margin"
  /\ probe.sheet_name = "KPI"
  /\ Units(probe.score) = Scale \div 6

(***************************************************************************)
(* C18.  The expanded query is the query followed, joined by spaces, by    *)
(* the name of every catalog concept whose embedding has cosine similarity *)
(* strictly above 0.30 with the query embedding, in catalog order, each    *)
(* name once and nothing else.                                             *)
(***************************************************************************)
\* indices of the catalog concepts similar to a query, in catalog order
SimilarConcepts(p, query) ==
  SelectSeq([i \in 1..Len(Concepts) |-> i],
            LAMBDA i : FGt(Cosine(p, Encode(query), Encode(ConceptText(Concepts[i]))),
                           Float(3, 10)))

C18_ExpansionInCatalogOrder ==
  probe.op = "process_query" =>
    LET similar == SimilarConcepts(provider, probe.query)
    IN probe.expanded =
         Join(<<probe.query>> \o [k \in 1..Len(similar) |-> Concepts[similar[k]].name], " ")

\* a query has been expanded with some names while a concept scoring exactly
\* 0.30 was left out
C18_Witness ==
  /\ probe.op = "process_query"
  /\ probe.expanded # probe.query
  /\ \E i \in 1..Len(Concepts) :
       FCmp(Cosine(provider, Encode(probe.query), Encode(ConceptText(Concepts[i]))),
            Float(3, 10)) = 0

(***************************************************************************)
(* C20.  model.encode is called once per catalog concept at construction,  *)
(* once per indexed cell in each load, and exactly twice in each search    *)
(* over a non-empty index: for the raw query and for the expanded query.   *)
(* The searches are those against a completely loaded index.               *)
(***************************************************************************)
C20_EncodeCallCounts ==
  /\ (loadPc = "idle" /\ loadOutcome = "none") => providerCalls = Len(Concepts)
  /\ LoadedOk => providerCalls = Len(cells)
  /\ (Answered /\ LoadedOk /\ cells # <<>>) => lastSearch.encode_calls = 2

\* the terms of sign * 10 times the part of a result's relevance_score that
\* is not the semantic part, sign * (4 * conceptScore + 2 * contextScore): the
\* score and the similarity with their factors
NonSemanticPart(run, n, sign) ==
  LET i == CHOOSE k \in 1..Len(probe.locations) : probe.locations[k] = run.results[n].location
  IN << <<run.results[n].relevance_score, sign * 10>>, <<run.similarity[i], 0 - (sign * 4)>> >>

\* C19: two searches of the same query over the same cells that differ in the
\* provider's similarities, and so in the concept names appended to the query,
\* give every cell both report the same explanation and the same concept and
\* context part of the score, within 1e-9
C19_RawQueryScores ==
  probe.op = "search_pair" =>
    \A n \in 1..Len(probe.first.results) : \A m \in 1..Len(probe.second.results) :
      probe.first.results[n].location = probe.second.results[m].location =>
        /\ probe.first.results[n].explanation = probe.second.results[m].explanation
        /\ NearZero(NonSemanticPart(probe.first, n, 1) \o NonSemanticPart(probe.second, m, 0 - 1))

\* the two engines appended different concept names, and a cell both report
\* has a positive concept or context part and an explanation naming a match
C19_Witness ==
  /\ probe.op = "search_pair"
  /\ probe.first.processed_query # probe.second.processed_query
  /\ \E n \in 1..Len(probe.first.results) : \E m \in 1..Len(probe.second.results) :
       /\ probe.first.results[n].location = probe.second.results[m].location
       /\ ~NearZero(<< <<probe.first.results[n].relevance_score, 1>>,
                        <<probe.second.results[m].relevance_score, 0 - 1>> >>)
       /\ ~NearZero(NonSemanticPart(probe.first, n, 1))
       /\ probe.first.results[n].explanation # "Semantically related to your query"

(***************************************************************************)
(* The scenario of a "Total Revenue" column holding =SUM(B2:B4).           *)
(***************************************************************************)
\* the cells with header "Total Revenue" that hold the formula =SUM(B2:B4)
RevenueSumCells ==
  {i \in 1..Len(cells) : cells[i].header_context = "Total Revenue"
                         /\ cells[i].formula = "=SUM(B2:B4)"}

\* the tags that name a cost: the concepts of the category "costs" and the
\* tag of a formula under a cost header
CostTags ==
  {Concepts[k].name : k \in {j \in 1..Len(Concepts) : Concepts[j].category = "costs"}}
  \cup {"cost calculation"}

\* the locations a search returned
ReturnedLocations == {lastSearch.results[n].location : n \in 1..Len(lastSearch.results)}

\* C21: after a completed load of a sheet whose "Total Revenue" column holds
\* =SUM(B2:B4), that cell has no tag naming a cost, and the search "show cost
\* calculations" gives it no concept score and does not return it
C21_CostQuerySkipsRevenueSum ==
  (Answered /\ LoadedOk /\ lastSearch.query = "show cost calculations") =>
    \A i \in RevenueSumCells :
      /\ cells[i].business_concepts \cap CostTags = {}
      /\ FCmp(ConceptRelevance(lastSearch.query, TagList(cells[i])), FZero) = 0
      /\ Location(cells[i]) \notin ReturnedLocations

\* the similarity of line 231 between the query of the last search, expanded,
\* and an embedded cell
CellSimilarity(cell) ==
  Cosine(provider, Encode(ProcessQuery(provider, lastSearch.query)), cell.semantic_embedding)

\* C22 as the specification states it: after a completed load of a sheet whose
\* "Total Revenue" column holds =SUM(B2:B4), the search "find revenue totals"
\* with max_results at least the number of cells returns that cell, and the
\* concept score of the cell for the query is at least 0.7
C22_RevenueQueryFindsRevenueSum ==
  (Answered /\ LoadedOk /\ lastSearch.query = "find revenue totals"
     /\ lastSearch.max_results >= Len(cells)) =>
    \A i \in RevenueSumCells :
      /\ Location(cells[i]) \in ReturnedLocations
      /\ FGe(ConceptRelevance(lastSearch.query, TagList(cells[i])), Float(7, 10))

\* C22, amended: after such a load the concept score of the cell for "find
\* revenue totals" is at least 0.7, and the search with max_results at least
\* the number of cells returns the cell when the provider's similarity between
\* the expanded query and the cell is -0.599 or more, and does not return it
\* when the similarity is -0.601 or less: the final score is
\* 0.4 * similarity + 0.34, which is above the floor 0.1 from -0.6 on
C22_RevenueSumFoundAboveFloor ==
  (Answered /\ LoadedOk /\ lastSearch.query = "find revenue totals"
     /\ lastSearch.max_results >= Len(cells)) =>
    \A i \in RevenueSumCells :
      /\ FGe(ConceptRelevance(lastSearch.query, TagList(cells[i])), Float(7, 10))
      /\ FGe(CellSimilarity(cells[i]), Float(0 - 599, 1000))
           => Location(cells[i]) \in ReturnedLocations
      /\ FLe(CellSimilarity(cells[i]), Float(0 - 601, 1000))
           => Location(cells[i]) \notin ReturnedLocations

\* the search "find revenue totals" has answered over the loaded revenue sheet
\* and returned the cell of the formula, whose similarity to the query is
\* negative
C22_Witness ==
  /\ Answered /\ LoadedOk /\ lastSearch.query = "find revenue totals"
  /\ lastSearch.max_results >= Len(cells)
  /\ \E i \in RevenueSumCells :
       /\ Location(cells[i]) \in ReturnedLocations
       /\ FLt(CellSimilarity(cells[i]), FZero)

\* C23: after a completed load every cell has the embedding of its rich text
\* (header if any, str(value), formula if any, tags, sheet name), and no step
\* other than one of a load changes the cells or their embeddings
C23_EmbeddingsOfRichText ==
  /\ [](LoadedOk => \A i \in 1..Len(cells) :
                      cells[i].semantic_embedding
                        = Encode(RichText(ReadCell(hashSeed, cells[i]))))
  /\ [][(LoadedOk /\ LoadedOk') => cells' = cells]_vars

\* a search has answered over the embedded cells of a completed load, one of
\* them with a header, a formula and tags
C23_Witness ==
  /\ LoadedOk /\ Answered /\ lastSearch.results # <<>>
  /\ \E i \in 1..Len(cells) :
       /\ cells[i].header_context # "" /\ cells[i].formula # ""
       /\ cells[i].business_concepts # {}
       /\ cells[i].semantic_embedding.set

\* C24: no step of a search changes anything of the engine (the cell list with
\* its tags and embeddings, the stored grid, the position of a load), and its
\* result list is a function of the query, max_results and the cell list as it
\* stands, so two identical searches with no load step in between agree
C24_SearchHasNoSideEffects ==
  /\ [][(searchRun' # searchRun \/ (Quiet /\ ~Quiet')) =>
          UNCHANGED <<cells, sheet_data, loadPc, loadNext, loadOutcome, providerCalls>>]_vars
  /\ [](Answered => lastSearch.results =
                      SearchResults(hashSeed, provider, lastSearch.query,
                                    lastSearch.max_results, cells))

\* a search with the default max_results has answered with two results or more
C24_Witness ==
  /\ Answered /\ lastSearch.max_results = DefaultMaxResults
  /\ Len(lastSearch.results) >= 2
  /\ Len(cells) >= 2

\* line 231 for the cell a result of the last search was built from
SimilarityOf(result) ==
  Cosine(provider, Encode(ProcessQuery(provider, lastSearch.query)),
         cells[CellIndexOf(result)].semantic_embedding)

\* a score in the closed interval [0, 1]
InUnitInterval(score) == FGe(score, FZero) /\ FLe(score, Float(1, 1))

\* C25 as stated: for every result of a search the semantic, concept, context
\* and final scores lie in [0, 1]
C25_ScoresInUnitInterval ==
  (Answered /\ LoadedOk) =>
    \A n \in 1..Len(lastSearch.results) :
      LET result == lastSearch.results[n]
          cell == cells[CellIndexOf(result)]
      IN /\ InUnitInterval(SimilarityOf(result))
         /\ InUnitInterval(ConceptRelevance(lastSearch.query, TagList(cell)))
         /\ InUnitInterval(ContextualRelevance(lastSearch.query, cell))
         /\ InUnitInterval(result.relevance_score)

\* C25, amended: for every result of a search the concept, context and final
\* scores lie in [0, 1], and the semantic score, the cosine as the provider's
\* vectors give it, lies in [-1, 1]
C25_ScoreRanges ==
  (Answered /\ LoadedOk) =>
    \A n \in 1..Len(lastSearch.results) :
      LET result == lastSearch.results[n]
          cell == cells[CellIndexOf(result)]
      IN /\ FGe(SimilarityOf(result), Float(0 - 1, 1)) /\ FLe(SimilarityOf(result), Float(1, 1))
         /\ InUnitInterval(ConceptRelevance(lastSearch.query, TagList(cell)))
         /\ InUnitInterval(ContextualRelevance(lastSearch.query, cell))
         /\ InUnitInterval(result.relevance_score)

\* a returned result whose similarity is negative and whose concept and
\* context scores are positive
C25_Witness ==
  /\ Answered /\ LoadedOk
  /\ \E n \in 1..Len(lastSearch.results) :
       LET cell == cells[CellIndexOf(lastSearch.results[n])]
       IN /\ FLt(SimilarityOf(lastSearch.results[n]), FZero)
          /\ FGt(ConceptRelevance(lastSearch.query, TagList(cell)), FZero)
          /\ FGt(ContextualRelevance(lastSearch.query, cell), FZero)

(***************************************************************************)
(* The explanation text.                                                   *)
(***************************************************************************)
\* the tags of a cell having a word that occurs in the lower-cased query
TagsNamedByQuery(query, cell) ==
  SelectSeq(cell.business_concepts,
            LAMBDA tag : \E word \in Range(Split(Lower(tag))) : Contains(Lower(query), word))

\* the words a text shares with the query, case aside
SharedWords(text, query) == Range(Split(Lower(text))) \cap Range(Split(Lower(query)))

\* the formula acknowledgements that apply, highest priority first
FormulaAcknowledgements(query, cell) ==
  IF cell.formula = "" THEN <<>>
  ELSE (IF \E term \in {"formula", "calculation", "computed"} : Contains(Lower(query), term)
        THEN <<"Contains a formula">> ELSE <<>>)
       \o (IF Contains(Lower(query), "average") /\ Contains(Lower(cell.formula), "average")
           THEN <<"Contains average calculation">> ELSE <<>>)
       \o (IF (\E term \in {"sum", "total"} : Contains(Lower(query), term))
              /\ Contains(Lower(cell.formula), "sum")
           THEN <<"Contains sum calculation">> ELSE <<>>)

\* the parts of the explanation that apply, in the order of the text, the
\* shared words of the header and of the sheet name listed in the given orders
ExplanationParts(header_order, sheet_order, query, cell) ==
  (IF TagsNamedByQuery(query, cell) # <<>>
   THEN <<"Contains " \o Join(TagsNamedByQuery(query, cell), ", ")>> ELSE <<>>)
  \o (IF SharedWords(cell.header_context, query) # {}
      THEN <<"Header contains: "
             \o Join(WordsToList(header_order, SharedWords(cell.header_context, query)), ", ")>>
      ELSE <<>>)
  \o (IF FormulaAcknowledgements(query, cell) = <<>> THEN <<>>
      ELSE <<Head(FormulaAcknowledgements(query, cell))>>)
  \o (IF SharedWords(cell.sheet_name, query) # {}
      THEN <<"In relevant sheet: "
             \o Join(WordsToList(sheet_order, SharedWords(cell.sheet_name, query)), ", ")>>
      ELSE <<>>)

\* C26: the explanation is never empty; it is the parts that apply joined by
\* "; " in the order tags, header words, one formula acknowledgement of the
\* highest priority, sheet-name words, the shared words of a part in one of
\* their orders, and it is the fallback sentence exactly when no part applies
C26_ExplanationParts ==
  probe.op = "generate_explanation" =>
    /\ probe.explanation # ""
    /\ \E header_order \in Orders(Cardinality(SharedWords(probe.cell.header_context, probe.query))) :
         \E sheet_order \in Orders(Cardinality(SharedWords(probe.cell.sheet_name, probe.query))) :
           LET parts == ExplanationParts(header_order, sheet_order, probe.query, probe.cell)
           IN /\ parts # <<>> => probe.explanation = Join(parts, "; ")
              /\ (probe.explanation = "Semantically related to your query") <=> (parts = <<>>)

\* an explanation of all four parts, the cell's formula qualifying for two
\* acknowledgements
C26_Witness ==
  /\ probe.op = "generate_explanation"
  /\ Len(ExplanationParts(0, 0, probe.query, probe.cell)) = 4
  /\ Cardinality(SharedWords(probe.cell.header_context, probe.query)) >= 2
  /\ Len(FormulaAcknowledgements(probe.query, probe.cell)) >= 2

(***************************************************************************)
(* The /search handler.                                                    *)
(***************************************************************************)
\* C27: when no cell is indexed the /search handler answers with status 400
\* and the detail of line 640, without calling the engine's search
C27_NoDataAnswers400 ==
  (probe.op = "search_spreadsheets" /\ ~HasData(cells)) =>
    /\ probe.status_code = 400
    /\ probe.detail = NoDataDetail
    /\ ~probe.engine_called

\* C28: every result of a search carries the string form of its cell's raw
\* value, never None, whatever the raw value (0 and False included)
C28_ValueIsStringOfRaw ==
  (Answered /\ LoadedOk) =>
    \A n \in 1..Len(lastSearch.results) :
      lastSearch.results[n].value =
        SomeStr(StrOf(cells[CellIndexOf(lastSearch.results[n])].value))

\* C29: a completed load gives every cell the ordered tag list, and so the
\* rich text and the embedding, that the load gives in every run, whatever
\* the order in which the set of its tags iterates, and every result of a
\* search carries the concept name built from the first tag of that list
C29_SameInEveryRun ==
  LoadedOk =>
    \A n \in 1..Len(cells) :
      \A order \in Orders(Cardinality(cells[n].business_concepts)) :
        LET read == [cells[n] EXCEPT !.business_concepts = SetToList(order, @)]
        IN /\ ReadCell(hashSeed, cells[n]).business_concepts = read.business_concepts
           /\ cells[n].semantic_embedding = Encode(RichText(read))
           /\ Answered =>
                \A i \in 1..Len(lastSearch.results) :
                  lastSearch.results[i].location = Location(read) =>
                    lastSearch.results[i].concept_name = GenerateConceptName(read)

\* a query without words: the empty string or white space only
NoWords(query) == Split(Lower(query)) = <<>>

\* the index in the probed cell list of the n-th result of a run
RunIndexOf(run, n) ==
  CHOOSE k \in 1..Len(probe.locations) : probe.locations[k] = run.results[n].location

\* the indices in the probed cell list of the cells whose similarity * 0.4
\* exceeds the floor
AboveFloorBySimilarity(run) ==
  {i \in 1..Len(cells) :
     /\ cells[i].semantic_embedding.set
     /\ FGt(FMul(run.similarity[i], Float(4, 10)), Float(1, 10))}

\* a run of search scored and ranked its cells by the semantic part alone: the
\* cells it returns are cells whose similarity * 0.4 exceeds the floor, each
\* once and with that score, in descending order of similarity; a cell above
\* the floor that the cut to max_results left out has no higher similarity
\* than a returned one, and a max_results of 0 or more leaves out only what
\* exceeds it
RankedBySimilarityAlone(run) ==
  LET above == AboveFloorBySimilarity(run)
      returned == {RunIndexOf(run, n) : n \in 1..Len(run.results)}
  IN /\ returned \subseteq above
     /\ Cardinality(returned) = Len(run.results)
     /\ probe.max_results >= 0
          => Len(run.results) = Min2(probe.max_results, Cardinality(above))
     /\ \A i \in above \ returned : \A j \in returned :
          FGe(run.similarity[j], run.similarity[i])
     /\ \A n \in 1..Len(run.results) :
          /\ FCmp(run.results[n].relevance_score,
                  FMul(run.similarity[RunIndexOf(run, n)], Float(4, 10))) = 0
          /\ \A m \in (n + 1)..Len(run.results) :
               FGe(run.similarity[RunIndexOf(run, n)], run.similarity[RunIndexOf(run, m)])

\* C30: a search with a query that has no words, over a non-empty index, gives
\* every cell the concept score 0 and the context score 0 (no division by the
\* number of query words is made) and returns the cells ranked by their
\* semantic similarity alone
C30_NoWordQueryRanksBySimilarity ==
  (probe.op = "search_pair" /\ NoWords(probe.query)) =>
    /\ \A i \in 1..Len(cells) :
         /\ FCmp(ConceptRelevance(probe.query, TagList(cells[i])), FZero) = 0
         /\ FCmp(ContextualRelevance(probe.query, cells[i]), FZero) = 0
    /\ RankedBySimilarityAlone(probe.first)
    /\ RankedBySimilarityAlone(probe.second)

\* a white-space query was searched over cells that carry tags and a header,
\* the query grew by concept names, and a run returned two cells with different
\* scores while the cut to max_results left out a third above the floor
C30_Witness ==
  /\ probe.op = "search_pair"
  /\ probe.query # ""
  /\ NoWords(probe.query)
  /\ probe.first.processed_query # probe.query
  /\ \E i \in 1..Len(cells) : cells[i].business_concepts # {} /\ cells[i].header_context # ""
  /\ \E run \in {probe.first, probe.second} :
       /\ Len(run.results) < Cardinality(AboveFloorBySimilarity(run))
       /\ \E n, m \in 1..Len(run.results) :
            FGt(run.results[n].relevance_score, run.results[m].relevance_score)
=============================================================================
